---- MODULE Spec2Model ----
(***************************************************************************)
(* websocketfs: an SFTPv3-derived protocol over WebSocket.                 *)
(*                                                                         *)
(* The module holds six state machines over one set of variables:          *)
(*   SpecPath   - SafeFilesystem path jailing (toRealPath, toVirtualPath)  *)
(*   SpecSafe   - SafeFilesystem handles, per-handle queue, read-only, end *)
(*   SpecAlloc  - SafeFilesystem handle table filled up to its limit       *)
(*   SpecClient - SftpClientCore / SftpClient request table and channel    *)
(*   SpecFuse   - SftpFuse adapter: lifecycle, reconnect loop, TTL caches  *)
(*   SpecFlush  - SftpFuse write buffer of one descriptor and its flush    *)
(* Each specification leaves the variables of the others unchanged.        *)
(***************************************************************************)
EXTENDS Integers, Sequences, FiniteSets, TLC

VARIABLES
  \* ---- SafeFilesystem paths
  root,        \* SafeFilesystem.root
  wirePath,    \* the path string received from the wire
  realPath,    \* the result of toRealPath, or NoPath before the call
  pathPc,      \* "wire" before toRealPath ran, "real" after, "virtual" after
               \* toVirtualPath ran on the result
  virtualPath, \* the result of toVirtualPath, or NoPath before the call
  \* ---- SafeFilesystem handles
  readOnly,    \* SafeFilesystem.readOnly
  handles,     \* SafeFilesystem._handles: safe handle -> HandleInfo object
  nextHandle,  \* SafeFilesystem._nextHandle
  infos,       \* the HandleInfo objects ever created: safe, real, busy, actions
  tasks,       \* the operations submitted to the safe filesystem, in call order
  fsCalls,     \* calls in flight on the underlying filesystem
  fsLog,       \* every call ever dispatched to the underlying filesystem
  endPc,       \* SafeFilesystem.end: "idle", "closing" (awaiting a close), "done"
  endHandle,   \* the loop variable of end() while it awaits a close
  \* --- SftpClient / SftpClientCore over one channel ---
  cHost,       \* SftpClientCore._host is set
  cId,         \* SftpClientCore._id: <<>> for null, <<n>> for the number n
  cInitReq,    \* _requests has the INIT request (stored under the key null)
  cRequests,   \* _requests: request ID -> index in cCalls of the operation
  cBound,      \* SftpClient._bound
  cHandshake,  \* _bind's callback: "none", "pending", "done", "failed"
  chanClosed,  \* WebSocketChannel.closed
  cCloseCode,  \* the code of the first WebSocketChannel.close (0: none yet)
  wire,        \* what the channel has sent, in order: 0 for INIT, else an index in cCalls
  net,         \* responses on their way to the client
  answered,    \* the requests the server has answered
  cCalls,      \* the operations called by the user of the client, in call order
  cTicks,      \* process.nextTick callbacks that will report NO_CONNECTION
  cDelivered,  \* which request's parser each processed response was handed to
  cErrors,     \* responses whose processing ended in an "error" event
  \* --- SftpFuse (sftp-fuse.ts) ---
  fState,      \* SftpFuse.state: "init", "connecting", "ready", "closed"
  fSftp,       \* SftpFuse.sftp: 0 for undefined, else the number of the SftpClient
  fConns,      \* SftpClient objects connected so far
  fReconnect,  \* the reconnect option
  fConn,       \* who is connecting: "unstarted", "none", "initial" (connect() awaits
               \* connectToServer), "delay" / "attempt" (the loop of handleConnectionClose)
  fD,          \* the loop's delay d, as the number of times it has grown
  fRefusals,   \* connection attempts the server has refused
  fEnded,      \* end() has been called
  attrCache,   \* path -> <<>> or <<e, kind>>: the entry ("attr" or "errno") came from a
               \* request issued at epoch e
  dirCache,    \* the same for directory listings
  linkCache,   \* the same for link targets
  fMut,        \* the epoch: mutating operations issued on the file so far
  fInflight,   \* client requests of getattr/readdir/readlink awaiting their response
  fCalls,      \* kernel callbacks entered so far
  fLast,       \* the last answer given to a kernel callback
  fIssued,     \* the adapter state in which the last client request was issued
  \* SftpFuse write coalescing, for one file descriptor
  wData,       \* this.data[fd]: the buffered records (<<>>: no entry)
  wLog,        \* the write callbacks entered so far: position and length of each
  wFlushes,    \* the calls of flush: local variables, position in the code, result
  wSent,       \* the WRITE requests handed to the client, in order
  wReleased,   \* release(fd) has completed
  \* SafeFilesystem handle table under a long run of opens and closes
  aHandles,    \* _handles: safe handle -> real descriptor
  aNext,       \* _nextHandle
  aOpens,      \* open/opendir calls so far
  aCloses,     \* close calls so far
  aFails,      \* opens the underlying filesystem has refused so far
  aLast,       \* the outcome of the last open: the slot allocated and the result
  \* WebSocketChannel: one channel over one transport
  chEstablished, \* WebSocketChannel.established
  chClosed,      \* WebSocketChannel.closed
  chOnclose,     \* WebSocketChannel.onclose is a function
  chOnmessage,   \* a message listener has been bound to the transport
  chDoClose,     \* the close code handed to doClose (0: doClose has not been called)
  chFrames,      \* the frames the transport has emitted and what became of each
  chCause,       \* what made _close run: "none", "frame", "transport", "error"
  chTick,        \* the nextTick callback of _close: <<>> or <<error code>>
  chCloseErr,    \* the error code the close listener has received ("none": not called)
  \* SftpClientCore.rename on a connected client
  rFeature,    \* _features[POSIX_RENAME] is set (VERSION advertised posix-rename@openssh.com)
  rCalls,      \* the rename calls so far: flags, packet sent, callback invocations, error
  rTicks,      \* the nextTick queue: the call whose callback each entry invokes
  rPackets,    \* the packets handed to execute, in order: the call each belongs to
  \* SftpPacketWriter and SftpPacketReader: one value written and read back
  kType,       \* the type written: "byte", "int32", "int64", "string", "data"
  kValue,      \* the value handed to the writer
  kPos,        \* the position of writer and reader before the value
  kBuffer,     \* the writer's buffer after the write; the reader reads the same bytes
  kRead,       \* the value the reader returned
  kPc,         \* "input", "written", "read"
  \* SftpFuse write buffers across a reconnect
  sWriteSession, \* for each write callback entered: the session (client) it was buffered under
  sSentSession,  \* for each WRITE request in wSent: the session it was sent on
  \* SftpClientCore request IDs over a long session
  iId,         \* SftpClientCore._id: <<>> before INIT, <<id>> afterwards
  iRequests,   \* the IDs of _requests, as a set of intervals <<first, last>>
  iCalls,      \* the operations called: the ID each was given and what execute did
  \* SftpClientCore.read and the empty DATA responses of a broken server
  pArgs,       \* the arguments of SftpClientCore.read: <<>> before the call
  pReads,      \* the READ requests sent, in order: [position, length]
  pRetries,    \* the `retries` argument of the parser of the outstanding READ
  pLength,     \* the `length` argument of the parser of the outstanding READ
  pEmpty,      \* DATA responses of length zero received
  pOut,        \* "none", "pending", then what the read ended with
  \* SftpFuse.readlink and its cache
  lSucceeded,  \* a READLINK request for the file has succeeded
  lAnswer,     \* what the last readlink callback was answered with
  \* SftpFuse.readdir on the network path
  dPc,         \* where readdir is: "idle", "opendir", "readdir"
  dItems,      \* the items collected by the readdir in progress
  dLog,        \* the readdir calls finished: what OPENDIR and READDIR gave, what cb got
  \* FileDataSource and its consumer
  qLength,     \* the length of the file on the server
  qInitial,    \* the position given to the constructor
  qSource,     \* the fields of the FileDataSource, as a record
  qRequests,   \* the READ requests in flight: [position, bytesToRead]
  qOut         \* the chunks read() has returned, in order: [position, length]

pathVars == <<root, wirePath, realPath, pathPc, virtualPath>>

safeVars == <<readOnly, handles, nextHandle, infos, tasks, fsCalls, fsLog, endPc, endHandle>>

clientVars == <<cHost, cId, cInitReq, cRequests, cBound, cHandshake, chanClosed, cCloseCode, wire, net,
                answered, cCalls, cTicks, cDelivered, cErrors>>

fuseVars == <<fState, fSftp, fConns, fReconnect, fConn, fD, fRefusals, fEnded, attrCache,
              dirCache, linkCache, fMut, fInflight, fCalls, fLast, fIssued>>

flushVars == <<wData, wLog, wFlushes, wSent, wReleased>>

allocVars == <<aHandles, aNext, aOpens, aCloses, aFails, aLast>>

chanVars == <<chEstablished, chClosed, chOnclose, chOnmessage, chDoClose, chFrames, chCause, chTick, chCloseErr>>

renVars == <<rFeature, rCalls, rTicks, rPackets>>

codecVars == <<kType, kValue, kPos, kBuffer, kRead, kPc>>

sessVars == <<sWriteSession, sSentSession>>

idsVars == <<iId, iRequests, iCalls>>

readVars == <<pArgs, pReads, pRetries, pLength, pEmpty, pOut>>

linkVars == <<lSucceeded, lAnswer>>

dirVars == <<dPc, dItems, dLog>>

sourceVars == <<qLength, qInitial, qSource, qRequests, qOut>>

vars == <<pathVars, safeVars, clientVars, fuseVars, flushVars, allocVars, chanVars, renVars, codecVars, sessVars, idsVars, readVars, linkVars, dirVars, sourceVars>>

notChanVars == <<pathVars, safeVars, clientVars, fuseVars, flushVars, allocVars, renVars, codecVars, sessVars, idsVars, readVars, linkVars, dirVars, sourceVars>>
notRenVars == <<pathVars, safeVars, clientVars, fuseVars, flushVars, allocVars, chanVars, codecVars, sessVars, idsVars, readVars, linkVars, dirVars, sourceVars>>
notCodecVars == <<pathVars, safeVars, clientVars, fuseVars, flushVars, allocVars, chanVars, renVars, sessVars, idsVars, readVars, linkVars, dirVars, sourceVars>>
notSessVars == <<pathVars, safeVars, clientVars, fuseVars, flushVars, allocVars, chanVars, renVars, codecVars, idsVars, readVars, linkVars, dirVars, sourceVars>>
notSessionVars == <<pathVars, safeVars, clientVars, allocVars, chanVars, renVars, codecVars, idsVars, readVars, linkVars, dirVars, sourceVars>>
notIdsVars == <<pathVars, safeVars, clientVars, fuseVars, flushVars, allocVars, chanVars, renVars, codecVars, sessVars, readVars, linkVars, dirVars, sourceVars>>
notReadVars == <<pathVars, safeVars, clientVars, fuseVars, flushVars, allocVars, chanVars, renVars, codecVars, sessVars, idsVars, linkVars, dirVars, sourceVars>>
notLinkVars == <<pathVars, safeVars, clientVars, fuseVars, flushVars, allocVars, chanVars, renVars, codecVars, sessVars, idsVars, readVars, dirVars, sourceVars>>
notFuseLinkVars == <<pathVars, safeVars, clientVars, flushVars, allocVars, chanVars, renVars, codecVars, sessVars, idsVars, readVars, dirVars, sourceVars>>
notDirVars == <<pathVars, safeVars, clientVars, fuseVars, flushVars, allocVars, chanVars, renVars, codecVars, sessVars, idsVars, readVars, linkVars, sourceVars>>
notSourceVars == <<pathVars, safeVars, clientVars, fuseVars, flushVars, allocVars, chanVars, renVars, codecVars, sessVars, idsVars, readVars, linkVars, dirVars>>
notPathVars == <<safeVars, clientVars, fuseVars, flushVars, allocVars, chanVars, renVars, codecVars, sessVars, idsVars, readVars, linkVars, dirVars, sourceVars>>
notSafeVars == <<pathVars, clientVars, fuseVars, flushVars, allocVars, chanVars, renVars, codecVars, sessVars, idsVars, readVars, linkVars, dirVars, sourceVars>>
notClientVars == <<pathVars, safeVars, fuseVars, flushVars, allocVars, chanVars, renVars, codecVars, sessVars, idsVars, readVars, linkVars, dirVars, sourceVars>>
notFuseVars == <<pathVars, safeVars, clientVars, flushVars, allocVars, chanVars, renVars, codecVars, sessVars, idsVars, readVars, linkVars, dirVars, sourceVars>>
notAllocVars == <<pathVars, safeVars, clientVars, fuseVars, flushVars, chanVars, renVars, codecVars, sessVars, idsVars, readVars, linkVars, dirVars, sourceVars>>
notFlushVars == <<pathVars, safeVars, clientVars, fuseVars, allocVars, chanVars, renVars, codecVars, sessVars, idsVars, readVars, linkVars, dirVars, sourceVars>>

\* A map with no keys (a sparse JS array or object with nothing in it).
EmptyMap == [k \in {} |-> 0]

\* The value of each group of variables while another state machine runs.
PathIdle ==
  /\ root = <<"/">>
  /\ wirePath = <<>>
  /\ realPath = <<"?">>
  /\ pathPc = "wire"
  /\ virtualPath = <<"?">>

SafeIdle ==
  /\ readOnly = FALSE
  /\ handles = EmptyMap
  /\ nextHandle = 1
  /\ infos = <<>>
  /\ tasks = <<>>
  /\ fsCalls = {}
  /\ fsLog = {}
  /\ endPc = "idle"
  /\ endHandle = 0

ClientIdle ==
  /\ cHost = FALSE
  /\ cId = <<>>
  /\ cInitReq = FALSE
  /\ cRequests = EmptyMap
  /\ cBound = FALSE
  /\ cHandshake = "none"
  /\ chanClosed = FALSE
  /\ cCloseCode = 0
  /\ wire = <<>>
  /\ net = {}
  /\ answered = {}
  /\ cCalls = <<>>
  /\ cTicks = {}
  /\ cDelivered = {}
  /\ cErrors = {}

\* The paths of the adapter model: a file and the directory that holds it.
File == "/f"
Dir == "/"
FusePaths == {Dir, File}
NoAnswer == [st |-> "none", res |-> "none", stale |-> FALSE]
NoRequest == "none"
EmptyCache == [p \in FusePaths |-> <<>>]

FuseIdle ==
  /\ fState = "init"
  /\ fSftp = 0
  /\ fConns = 0
  /\ fReconnect = TRUE
  /\ fConn = "unstarted"
  /\ fD = 0
  /\ fRefusals = 0
  /\ fEnded = FALSE
  /\ attrCache = EmptyCache
  /\ dirCache = EmptyCache
  /\ linkCache = EmptyCache
  /\ fMut = 0
  /\ fInflight = {}
  /\ fCalls = 0
  /\ fLast = NoAnswer
  /\ fIssued = NoRequest

FlushIdle ==
  /\ wData = <<>>
  /\ wLog = <<>>
  /\ wFlushes = <<>>
  /\ wSent = <<>>
  /\ wReleased = FALSE

NoOpen == [alloc |-> 0, res |-> "none"]

AllocIdle ==
  /\ aHandles = EmptyMap
  /\ aNext = 1
  /\ aOpens = 0
  /\ aCloses = 0
  /\ aFails = 0
  /\ aLast = NoOpen

ChanIdle ==
  /\ chEstablished = FALSE
  /\ chClosed = FALSE
  /\ chOnclose = FALSE
  /\ chOnmessage = FALSE
  /\ chDoClose = 0
  /\ chFrames = <<>>
  /\ chCause = "none"
  /\ chTick = <<>>
  /\ chCloseErr = "none"

RenIdle ==
  /\ rFeature = FALSE
  /\ rCalls = <<>>
  /\ rTicks = <<>>
  /\ rPackets = <<>>

CodecIdle ==
  /\ kType = "none"
  /\ kValue = <<>>
  /\ kPos = 0
  /\ kBuffer = <<>>
  /\ kRead = <<>>
  /\ kPc = "idle"

SessIdle ==
  /\ sWriteSession = <<>>
  /\ sSentSession = <<>>

IdsIdle ==
  /\ iId = <<>>
  /\ iRequests = {}
  /\ iCalls = <<>>

ReadIdle ==
  /\ pArgs = <<>>
  /\ pReads = <<>>
  /\ pRetries = 0
  /\ pLength = 0
  /\ pEmpty = 0
  /\ pOut = "none"

LinkIdle ==
  /\ lSucceeded = FALSE
  /\ lAnswer = "none"

DirIdle ==
  /\ dPc = "idle"
  /\ dItems = 0
  /\ dLog = <<>>

SourceIdle ==
  /\ qLength = 0
  /\ qInitial = 0
  /\ qSource = <<>>
  /\ qRequests = {}
  /\ qOut = <<>>

(***************************************************************************)
(* Strings are sequences of one-character strings.                         *)
(***************************************************************************)
Chars == {"/", ".", "a", "b"}

MaxPathLen == 5

RECURSIVE SeqsUpTo(_, _)
SeqsUpTo(S, n) ==
  IF n = 0 THEN {<<>>}
  ELSE LET shorter == SeqsUpTo(S, n - 1)
       IN shorter \cup {Append(s, c) : s \in {t \in shorter : Len(t) = n - 1}, c \in S}

Slash == <<"/">>
Dot == <<".">>
DotDot == <<".", ".">>
NoPath == <<"?">>

\* The segments of a string between its separators; "/a//b" gives "", "a", "", "b".
RECURSIVE SplitRec(_, _, _)
SplitRec(s, cur, acc) ==
  IF s = <<>> THEN Append(acc, cur)
  ELSE IF Head(s) = "/" THEN SplitRec(Tail(s), <<>>, Append(acc, cur))
  ELSE SplitRec(Tail(s), Append(cur, Head(s)), acc)

Split(s) == SplitRec(s, <<>>, <<>>)

RECURSIVE JoinWithSlash(_)
JoinWithSlash(segs) ==
  IF segs = <<>> THEN <<>>
  ELSE IF Len(segs) = 1 THEN segs[1]
  ELSE segs[1] \o Slash \o JoinWithSlash(Tail(segs))

\* node:path normalizeString: empty and "." segments are dropped, ".." removes
\* the segment before it, and is kept only where allowAboveRoot allows it.
RECURSIVE NormalizeString(_, _, _)
NormalizeString(segs, res, allowAboveRoot) ==
  IF segs = <<>> THEN res
  ELSE LET s == Head(segs)
           rest == Tail(segs)
       IN IF s = <<>> \/ s = Dot THEN NormalizeString(rest, res, allowAboveRoot)
          ELSE IF s = DotDot
            THEN IF Len(res) > 0 /\ res[Len(res)] # DotDot
                   THEN NormalizeString(rest, SubSeq(res, 1, Len(res) - 1), allowAboveRoot)
                 ELSE IF allowAboveRoot
                   THEN NormalizeString(rest, Append(res, DotDot), allowAboveRoot)
                 ELSE NormalizeString(rest, res, allowAboveRoot)
          ELSE NormalizeString(rest, Append(res, s), allowAboveRoot)

\* node:path posix.normalize
PathNormalize(p) ==
  IF p = <<>> THEN Dot
  ELSE LET isAbsolute == p[1] = "/"
           trailingSeparator == p[Len(p)] = "/"
           body == JoinWithSlash(NormalizeString(Split(p), <<>>, ~isAbsolute))
       IN IF body = <<>>
            THEN IF isAbsolute THEN Slash
                 ELSE IF trailingSeparator THEN <<".", "/">> ELSE Dot
          ELSE (IF isAbsolute THEN Slash ELSE <<>>) \o body
               \o (IF trailingSeparator THEN Slash ELSE <<>>)

\* node:path posix.join of two arguments
PathJoin(a, b) ==
  LET joined == IF a = <<>> THEN b
                ELSE IF b = <<>> THEN a
                ELSE a \o Slash \o b
  IN IF joined = <<>> THEN Dot ELSE PathNormalize(joined)

\* A resolution that joins the wire path to the root directly.
toRealPathUnjailed(r, path) == PathJoin(r, path)

\* SafeFilesystem.toRealPath
toRealPath(r, path) == PathJoin(r, PathJoin(Slash, path))

\* The loop of SafeFilesystem.toVirtualPath with the 0-based index i: the rest
\* of fullPath once the root is used up, "/" when fullPath ends first or
\* differs from the root.
RECURSIVE StripRoot(_, _, _)
StripRoot(r, fullPath, i) ==
  IF i >= Len(r) THEN SubSeq(fullPath, Len(r) + 1, Len(fullPath))
  ELSE IF i >= Len(fullPath) THEN Slash
  ELSE IF r[i + 1] # fullPath[i + 1] THEN Slash
  ELSE StripRoot(r, fullPath, i + 1)

\* SafeFilesystem.toVirtualPath on a POSIX host
toVirtualPath(r, fullPath) ==
  LET path == StripRoot(r, fullPath, 0)
  IN IF Len(path) = 0 THEN Slash ELSE path

\* The virtual roots a server is configured with (path.resolve makes them absolute).
VirtualRoots == {<<"/">>, <<"/", "a">>, <<"/", "a", "/", "b">>}

WirePaths == SeqsUpTo(Chars, MaxPathLen)

\* The absolute paths the underlying filesystem returns.
MaxReturnedLen == 3
ReturnedPaths == {PathNormalize(Slash \o w) : w \in SeqsUpTo(Chars, MaxReturnedLen)}

(***************************************************************************)
(* SafeFilesystem: handle table, per-handle queue, read-only mode, end()   *)
(***************************************************************************)
MAX_HANDLE_COUNT == 1024

MaxTasks == 3      \* operations submitted in one run
MaxInfos == 2      \* HandleInfo objects created in one run
MaxChunks == 2     \* blocks of one fcopy or fhash
MaxPathCalls == 1  \* path operations submitted in one run

\* Operations that make one underlying call under _execute.
HandleOps == {"read", "write", "fstat", "fsetstat", "readdir", "fsync"}

\* Path operations, and those among them that change the filesystem.
PathOps == {"lstat", "stat", "realpath", "readlink", "statvfs", "setstat",
            "unlink", "mkdir", "rmdir", "rename", "symlink", "link"}
MutatingPathOps == {"setstat", "unlink", "mkdir", "rmdir", "rename", "symlink", "link"}

\* Open flags: two string aliases and a number ("#1" stands for the number 1).
OpenFlags == {"r", "w", "#1"}

SafeHandles == 1..MaxInfos

NoTask == 0

MapRemove(m, k) == [x \in DOMAIN m \ {k} |-> m[x]]
MapPut(m, k, v) == [x \in DOMAIN m \cup {k} |-> IF x = k THEN v ELSE m[x]]
SetMin(S) == CHOOSE x \in S : \A y \in S : x <= y

\* SafeFilesystem.isReadOnly with the test inverted.
isReadOnlyInverted == readOnly = FALSE

\* SafeFilesystem.isReadOnly
isReadOnly == ~(readOnly = FALSE)

\* SafeFilesystem.toHandleInfo: the HandleInfo of a safe handle, 0 for null
toHandleInfo(hs, safeHandle) == IF safeHandle \in DOMAIN hs THEN hs[safeHandle] ELSE 0

\* The safe filesystem's mutable state as one value, so that the steps of a
\* handler compose.
SafeState ==
  [handles |-> handles, infos |-> infos, tasks |-> tasks, fsCalls |-> fsCalls, fsLog |-> fsLog]

SafeCommit(s) ==
  /\ handles' = s.handles
  /\ infos' = s.infos
  /\ tasks' = s.tasks
  /\ fsCalls' = s.fsCalls
  /\ fsLog' = s.fsLog

NewTask(kind, safe, safe2, left) ==
  [kind |-> kind, safe |-> safe, safe2 |-> safe2, info |-> 0, info2 |-> 0,
   st |-> "new", res |-> "none", fr |-> FALSE, tr |-> FALSE, fh |-> 0, th |-> 0,
   left |-> left, flags |-> ""]

\* A call handed to the underlying filesystem.
Dispatch(s, t, op, real, arg) ==
  [s EXCEPT !.fsCalls = @ \cup {[task |-> t, op |-> op, real |-> real, arg |-> arg]},
            !.fsLog = @ \cup {[op |-> op, real |-> real, arg |-> arg]}]

\* The callback of an operation is invoked.
Finish(s, t, res) ==
  [s EXCEPT !.tasks[t] = [NewTask(s.tasks[t].kind, 0, 0, 0) EXCEPT
                             !.st = "done", !.res = res, !.flags = s.tasks[t].flags]]

\* An action that threw synchronously: done(err) sets `finished` and, the action
\* not being asynchronous yet, hands itself to the next tick.
Defer(s, t) == [s EXCEPT !.tasks[t].st = "deferred"]

\* fcopy's start(): LocalFilesystem has no fcopy, so the read/write loop runs.
FcopyStart(s, t) == Dispatch(s, t, "read", s.tasks[t].fh, "")

\* A variant of run() in which fcopy's source action starts the copy without
\* waiting for the destination handle.
RunEager(s, t, role) ==
  LET task == s.tasks[t]
      i == IF role = "to" THEN task.info2 ELSE task.info
      real == s.infos[i].real
      s1 == [s EXCEPT !.tasks[t].st = "active"]
  IN CASE task.kind \in HandleOps ->
            IF endPc = "done" THEN Defer(s1, t) ELSE Dispatch(s1, t, task.kind, real, "")
       [] task.kind = "close" ->
            LET s2 == [s1 EXCEPT !.handles = MapRemove(@, task.safe)]
            IN IF endPc = "done" THEN Defer(s2, t) ELSE Dispatch(s2, t, "close", real, "")
       [] task.kind = "fhash" -> Dispatch(s1, t, "read", real, "")
       [] task.kind = "fcopy" /\ role = "from" ->
            LET same == task.safe = task.safe2
                s2 == [s1 EXCEPT !.tasks[t].fh = real, !.tasks[t].fr = TRUE,
                                 !.tasks[t].th = IF same THEN real ELSE @,
                                 !.tasks[t].tr = IF same THEN TRUE ELSE @]
            IN FcopyStart(s2, t)
       [] task.kind = "fcopy" /\ role = "to" ->
            LET s2 == [s1 EXCEPT !.tasks[t].th = real, !.tasks[t].tr = TRUE]
            IN IF s2.tasks[t].fr THEN FcopyStart(s2, t) ELSE s2

\* run() of _execute: the action is called with handleInfo.real.
\* role is "op" for an ordinary action, "from"/"to" for the two actions of fcopy.
Run(s, t, role) ==
  LET task == s.tasks[t]
      i == IF role = "to" THEN task.info2 ELSE task.info
      real == s.infos[i].real
      s1 == [s EXCEPT !.tasks[t].st = "active"]
  IN CASE task.kind \in HandleOps ->
            IF endPc = "done" THEN Defer(s1, t) ELSE Dispatch(s1, t, task.kind, real, "")
       [] task.kind = "close" ->
            LET s2 == [s1 EXCEPT !.handles = MapRemove(@, task.safe)]
            IN IF endPc = "done" THEN Defer(s2, t) ELSE Dispatch(s2, t, "close", real, "")
       [] task.kind = "fhash" -> Dispatch(s1, t, "read", real, "")
       [] task.kind = "fcopy" /\ role = "from" ->
            LET same == task.safe = task.safe2
                s2 == [s1 EXCEPT !.tasks[t].fh = real, !.tasks[t].fr = TRUE,
                                 !.tasks[t].th = IF same THEN real ELSE @,
                                 !.tasks[t].tr = IF same THEN TRUE ELSE @]
            IN IF s2.tasks[t].tr THEN FcopyStart(s2, t) ELSE s2
       [] task.kind = "fcopy" /\ role = "to" ->
            LET s2 == [s1 EXCEPT !.tasks[t].th = real, !.tasks[t].tr = TRUE]
            IN IF s2.tasks[t].fr THEN FcopyStart(s2, t) ELSE s2

\* _execute for task t on safeHandle: run at once when the handle is idle, queue
\* behind the running action otherwise. An unknown handle fails the callback.
Execute(s, t, safeHandle, role) ==
  LET i == toHandleInfo(s.handles, safeHandle)
      s1 == IF role = "to" THEN [s EXCEPT !.tasks[t].info2 = i]
            ELSE [s EXCEPT !.tasks[t].info = i]
  IN IF i = 0
       THEN IF role = "op" THEN Finish(s, t, "EINVALID") ELSE s
     ELSE IF ~s.infos[i].busy
       THEN Run([s1 EXCEPT !.infos[i].busy = TRUE], t, role)
     ELSE [s1 EXCEPT !.infos[i].actions = Append(@, <<t, role>>),
                     !.tasks[t].st = IF @ = "new" THEN "queued" ELSE @]

\* done() of _execute for HandleInfo i: start the next queued action, or clear busy.
Done(s, i) ==
  LET queue == s.infos[i].actions
  IN IF queue = <<>>
       THEN [s EXCEPT !.infos[i].busy = FALSE]
     ELSE Run([s EXCEPT !.infos[i].actions = Tail(queue)], Head(queue)[1], Head(queue)[2])

\* done() of fcopy: fc(), then tc() when there is a second handle, then the callback.
FcopyDone(s, t, res) ==
  LET task == s.tasks[t]
      s1 == Done(s, task.info)
      s2 == IF task.safe # task.safe2 THEN Done(s1, task.info2) ELSE s1
  IN Finish(s2, t, res)

\* SafeFilesystem.createHandleInfo: the loop tries the slot under the cursor
\* and moves the cursor on, at most MAX_HANDLE_COUNT times; safe = 0 stands
\* for null.
\* The value of _nextHandle after i iterations of the loop that started with
\* cursor: each iteration assigns (safeHandle % MAX_HANDLE_COUNT) + 1.
Probe(cursor, i) == ((cursor - 1 + i) % MAX_HANDLE_COUNT) + 1

\* The loop run for at most count iterations: it returns in the first
\* iteration whose slot is undefined, with the cursor already moved on.
ScanHandles(hs, cursor, count) ==
  IF count > 0 /\ cursor \notin DOMAIN hs
    THEN [safe |-> cursor, next |-> Probe(cursor, 1)]
  ELSE LET hits == {i \in 1..(count - 1) : Probe(cursor, i) \notin DOMAIN hs}
       IN IF hits = {} THEN [safe |-> 0, next |-> Probe(cursor, count)]
          ELSE [safe |-> Probe(cursor, SetMin(hits)), next |-> Probe(cursor, SetMin(hits) + 1)]

createHandleInfoShortScan(hs, cursor) == ScanHandles(hs, cursor, MAX_HANDLE_COUNT - 1)
createHandleInfo(hs, cursor) == ScanHandles(hs, cursor, MAX_HANDLE_COUNT)

\* The part of open and opendir after their checks: allocate a HandleInfo and
\* call the underlying open; ENFILE when no slot is free.
OpenHandle(t, kind, flags) ==
  LET s0 == [SafeState EXCEPT !.tasks = Append(@, [NewTask(kind, 0, 0, 0) EXCEPT !.flags = flags])]
      alloc == createHandleInfo(handles, nextHandle)
      i == Len(infos) + 1
      info == [safe |-> alloc.safe, real |-> 0, busy |-> FALSE, actions |-> <<>>]
  IN IF alloc.safe = 0
       THEN SafeCommit(Finish(s0, t, "ENFILE")) /\ UNCHANGED nextHandle
     ELSE /\ Len(infos) < MaxInfos
          /\ nextHandle' = alloc.next
          /\ SafeCommit(Dispatch([s0 EXCEPT !.infos = Append(@, info),
                                            !.handles = MapPut(@, alloc.safe, i),
                                            !.tasks[t].info = i,
                                            !.tasks[t].safe = alloc.safe,
                                            !.tasks[t].st = "active"],
                                 t, kind, 0, flags))

\* SafeFilesystem.open
SafeOpen(flags) ==
  /\ endPc = "idle"
  /\ Len(tasks) < MaxTasks
  /\ LET t == Len(tasks) + 1
         s0 == [SafeState EXCEPT !.tasks = Append(@, [NewTask("open", 0, 0, 0) EXCEPT !.flags = flags])]
     IN IF isReadOnly /\ flags # "r"
          THEN SafeCommit(Finish(s0, t, "EROFS")) /\ UNCHANGED nextHandle
        ELSE OpenHandle(t, "open", flags)
  /\ UNCHANGED <<readOnly, endPc, endHandle>>

\* SafeFilesystem.opendir
SafeOpendir ==
  /\ endPc = "idle"
  /\ Len(tasks) < MaxTasks
  /\ OpenHandle(Len(tasks) + 1, "opendir", "")
  /\ UNCHANGED <<readOnly, endPc, endHandle>>

\* The callback of the underlying open/opendir: processCallbackHandle.
SafeOpenDone(c, ok) ==
  /\ c \in fsCalls
  /\ c.op \in {"open", "opendir"}
  /\ LET t == c.task
         i == tasks[t].info
         s0 == [SafeState EXCEPT !.fsCalls = @ \ {c}]
     IN IF ok
          THEN SafeCommit(Finish([s0 EXCEPT !.infos[i].real = i], t, "ok"))
        ELSE SafeCommit(Finish([s0 EXCEPT !.handles = MapRemove(@, infos[i].safe)], t, "err"))
  /\ UNCHANGED <<readOnly, nextHandle, endPc, endHandle>>

\* close, read, write, fstat, fsetstat, readdir, fsync, fhash: each goes through
\* _execute; write and fsetstat fail with EROFS first in read-only mode.
SafeSubmit(kind, safeHandle, blocks) ==
  /\ endPc = "idle"
  /\ Len(tasks) < MaxTasks
  /\ kind = "fhash" \/ blocks = 1
  /\ LET t == Len(tasks) + 1
         s0 == [SafeState EXCEPT !.tasks = Append(@, NewTask(kind, safeHandle, 0, blocks))]
     IN IF kind \in {"write", "fsetstat"} /\ isReadOnly
          THEN SafeCommit(Finish(s0, t, "EROFS"))
        ELSE SafeCommit(Execute(s0, t, safeHandle, "op"))
  /\ UNCHANGED <<readOnly, nextHandle, endPc, endHandle>>

\* SafeFilesystem.fcopy: acquire the source handle, then the destination handle
\* when it is another one; the copy starts with the second acquisition.
SafeFcopy(fromHandle, toHandle, blocks) ==
  /\ endPc = "idle"
  /\ Len(tasks) < MaxTasks
  /\ LET t == Len(tasks) + 1
         s0 == [SafeState EXCEPT !.tasks = Append(@, NewTask("fcopy", fromHandle, toHandle, blocks))]
         s1 == Execute(s0, t, fromHandle, "from")
         s2 == IF fromHandle # toHandle THEN Execute(s1, t, toHandle, "to") ELSE s1
     IN IF isReadOnly
          THEN SafeCommit(Finish(s0, t, "EROFS"))
        ELSE SafeCommit(s2)
  /\ UNCHANGED <<readOnly, nextHandle, endPc, endHandle>>

\* lstat, stat, realpath, readlink, statvfs, setstat, unlink, mkdir, rmdir,
\* rename, symlink, link: the mutating ones fail with EROFS in read-only mode,
\* the others call the underlying filesystem with the real path.
SafePathOp(kind) ==
  /\ endPc = "idle"
  /\ Len(tasks) < MaxTasks
  /\ Cardinality({t \in 1..Len(tasks) : tasks[t].kind \in PathOps}) < MaxPathCalls
  /\ LET t == Len(tasks) + 1
         s0 == [SafeState EXCEPT !.tasks = Append(@, NewTask(kind, 0, 0, 0))]
     IN IF kind \in MutatingPathOps /\ isReadOnly
          THEN SafeCommit(Finish(s0, t, "EROFS"))
        ELSE SafeCommit(Dispatch([s0 EXCEPT !.tasks[t].st = "active"], t, kind, 0, ""))
  /\ UNCHANGED <<readOnly, nextHandle, endPc, endHandle>>

\* The callback of an underlying call made for an operation.
SafeFsComplete(c, ok) ==
  /\ c \in fsCalls
  /\ c.task # NoTask
  /\ c.op \notin {"open", "opendir"}
  /\ LET t == c.task
         task == tasks[t]
         res == IF ok THEN "ok" ELSE "err"
         s0 == [SafeState EXCEPT !.fsCalls = @ \ {c}]
     IN CASE task.kind \in PathOps -> SafeCommit(Finish(s0, t, res))
          [] task.kind \in HandleOps \cup {"close"} ->
               SafeCommit(Finish(Done(s0, task.info), t, res))
          [] task.kind = "fhash" ->
               IF ok /\ task.left > 1
                 THEN SafeCommit(Dispatch([s0 EXCEPT !.tasks[t].left = @ - 1], t, "read", c.real, ""))
               ELSE SafeCommit(Finish(Done(s0, task.info), t, res))
          [] task.kind = "fcopy" ->
               IF ~ok THEN SafeCommit(FcopyDone(s0, t, "err"))
               ELSE IF c.op = "read" THEN SafeCommit(Dispatch(s0, t, "write", task.th, ""))
               ELSE IF task.left > 1
                 THEN SafeCommit(Dispatch([s0 EXCEPT !.tasks[t].left = @ - 1], t, "read", task.fh, ""))
               ELSE SafeCommit(FcopyDone(s0, t, "ok"))
  /\ UNCHANGED <<readOnly, nextHandle, endPc, endHandle>>

\* The next tick after an action threw synchronously: done(err) runs again,
\* finds `finished` already set by its first run and returns; the next action
\* is not started, busy is not cleared and the callback is not invoked.
SafeDeferredDone(t) ==
  /\ t \in 1..Len(tasks)
  /\ tasks[t].st = "deferred"
  /\ SafeCommit([SafeState EXCEPT !.tasks[t].st = "dropped"])
  /\ UNCHANGED <<readOnly, nextHandle, endPc, endHandle>>

\* The loop of end() from handle `from` up to its next await: entries whose real
\* handle is null are deleted, the first other entry has its real handle closed.
EndScan(s, from) ==
  LET H == {h \in DOMAIN s.handles : h >= from}
      closable == {h \in H : s.infos[s.handles[h]].real # 0}
      m == SetMin(closable)
      passed == IF closable = {} THEN H ELSE {h \in H : h < m}
      s1 == [s EXCEPT !.handles = [x \in DOMAIN s.handles \ passed |-> s.handles[x]]]
  IN IF closable = {}
       THEN [s |-> s1, pc |-> "done", h |-> 0]
     ELSE [s |-> Dispatch(s1, NoTask, "close", s.infos[s.handles[m]].real, "end"),
           pc |-> "closing", h |-> m]

\* SafeFilesystem.end, up to its first await (or to its end).
SafeEnd ==
  /\ endPc = "idle"
  /\ LET r == EndScan(SafeState, 1)
     IN SafeCommit(r.s) /\ endPc' = r.pc /\ endHandle' = r.h
  /\ UNCHANGED <<readOnly, nextHandle>>

\* end() resumes after the close it awaited: the entry is deleted, the loop goes on.
SafeEndCloseDone(c) ==
  /\ endPc = "closing"
  /\ c \in fsCalls
  /\ c.task = NoTask
  /\ LET s0 == [SafeState EXCEPT !.fsCalls = @ \ {c}, !.handles = MapRemove(@, endHandle)]
         r == EndScan(s0, endHandle + 1)
     IN SafeCommit(r.s) /\ endPc' = r.pc /\ endHandle' = r.h
  /\ UNCHANGED <<readOnly, nextHandle>>

InitSafe ==
  /\ PathIdle
  /\ ClientIdle
  /\ FuseIdle
  /\ FlushIdle
  /\ AllocIdle
  /\ SourceIdle
  /\ DirIdle
  /\ LinkIdle
  /\ ReadIdle
  /\ IdsIdle
  /\ SessIdle
  /\ CodecIdle
  /\ RenIdle
  /\ ChanIdle
  /\ readOnly \in BOOLEAN
  /\ handles = EmptyMap
  /\ nextHandle = 1
  /\ infos = <<>>
  /\ tasks = <<>>
  /\ fsCalls = {}
  /\ fsLog = {}
  /\ endPc = "idle"
  /\ endHandle = 0

NextSafe ==
  \/ \E flags \in OpenFlags : SafeOpen(flags) /\ UNCHANGED notSafeVars
  \/ SafeOpendir /\ UNCHANGED notSafeVars
  \/ \E c \in fsCalls, ok \in BOOLEAN : SafeOpenDone(c, ok) /\ UNCHANGED notSafeVars
  \/ \E kind \in HandleOps \cup {"close", "fhash"}, h \in SafeHandles, n \in 1..MaxChunks :
       SafeSubmit(kind, h, n) /\ UNCHANGED notSafeVars
  \/ \E h1 \in SafeHandles, h2 \in SafeHandles, n \in 1..MaxChunks :
       SafeFcopy(h1, h2, n) /\ UNCHANGED notSafeVars
  \/ \E kind \in PathOps : SafePathOp(kind) /\ UNCHANGED notSafeVars
  \/ \E c \in fsCalls, ok \in BOOLEAN : SafeFsComplete(c, ok) /\ UNCHANGED notSafeVars
  \/ \E t \in 1..Len(tasks) : SafeDeferredDone(t) /\ UNCHANGED notSafeVars
  \/ SafeEnd /\ UNCHANGED notSafeVars
  \/ \E c \in fsCalls : SafeEndCloseDone(c) /\ UNCHANGED notSafeVars

SpecSafe == InitSafe /\ [][NextSafe]_vars

\* A session that has opened one file (handle 1) and has nothing in flight;
\* the records of operations and of underlying calls start here.
InitSafeOpened ==
  /\ PathIdle
  /\ ClientIdle
  /\ FuseIdle
  /\ FlushIdle
  /\ AllocIdle
  /\ SourceIdle
  /\ DirIdle
  /\ LinkIdle
  /\ ReadIdle
  /\ IdsIdle
  /\ SessIdle
  /\ CodecIdle
  /\ RenIdle
  /\ ChanIdle
  /\ readOnly = FALSE
  /\ handles = MapPut(EmptyMap, 1, 1)
  /\ nextHandle = 2
  /\ infos = <<[safe |-> 1, real |-> 1, busy |-> FALSE, actions |-> <<>>]>>
  /\ tasks = <<>>
  /\ fsCalls = {}
  /\ fsLog = {}
  /\ endPc = "idle"
  /\ endHandle = 0

\* The operations that go through the handle queues: open, read, close and
\* fcopy, with end().
NextSafeOpened ==
  \/ SafeOpen("r") /\ UNCHANGED notSafeVars
  \/ \E c \in fsCalls, ok \in BOOLEAN : SafeOpenDone(c, ok) /\ UNCHANGED notSafeVars
  \/ \E kind \in {"read", "close"}, h \in SafeHandles : SafeSubmit(kind, h, 1) /\ UNCHANGED notSafeVars
  \/ \E h1 \in SafeHandles, h2 \in SafeHandles, n \in 1..MaxChunks :
       SafeFcopy(h1, h2, n) /\ UNCHANGED notSafeVars
  \/ \E c \in fsCalls, ok \in BOOLEAN : SafeFsComplete(c, ok) /\ UNCHANGED notSafeVars
  \/ \E t \in 1..Len(tasks) : SafeDeferredDone(t) /\ UNCHANGED notSafeVars
  \/ SafeEnd /\ UNCHANGED notSafeVars
  \/ \E c \in fsCalls : SafeEndCloseDone(c) /\ UNCHANGED notSafeVars

SpecSafeOpened == InitSafeOpened /\ [][NextSafeOpened]_vars

InitPath ==
  /\ SafeIdle
  /\ ClientIdle
  /\ FuseIdle
  /\ FlushIdle
  /\ AllocIdle
  /\ SourceIdle
  /\ DirIdle
  /\ LinkIdle
  /\ ReadIdle
  /\ IdsIdle
  /\ SessIdle
  /\ CodecIdle
  /\ RenIdle
  /\ ChanIdle
  /\ root \in {PathNormalize(v) : v \in VirtualRoots}
  /\ wirePath \in WirePaths
  /\ realPath = NoPath
  /\ pathPc = "wire"
  /\ virtualPath = NoPath

\* A path operation (lstat, open, ...) resolves the wire path.
ResolvePath ==
  /\ pathPc = "wire"
  /\ realPath' = toRealPath(root, wirePath)
  /\ pathPc' = "real"
  /\ UNCHANGED <<root, wirePath, virtualPath>>
  /\ UNCHANGED notPathVars

\* The path toRealPath produced is mapped back by toVirtualPath.
VirtualizePath ==
  /\ pathPc = "real"
  /\ virtualPath' = toVirtualPath(root, realPath)
  /\ pathPc' = "virtual"
  /\ UNCHANGED <<root, wirePath, realPath>>
  /\ UNCHANGED notPathVars

\* The underlying filesystem answers realpath or readlink with the path f,
\* which processCallbackPath maps by toVirtualPath.
ReturnedPath(f) ==
  /\ pathPc = "wire"
  /\ realPath' = f
  /\ virtualPath' = toVirtualPath(root, f)
  /\ pathPc' = "returned"
  /\ UNCHANGED <<root, wirePath>>
  /\ UNCHANGED notPathVars

NextPath ==
  \/ ResolvePath
  \/ VirtualizePath
  \/ \E f \in ReturnedPaths : ReturnedPath(f)

SpecPath == InitPath /\ [][NextPath]_vars

(***************************************************************************)
(* Claims about path jailing                                               *)
(***************************************************************************)
NonEmpty(segs) == SelectSeq(segs, LAMBDA s : s # <<>>)

\* p names the directory r or a path below it: p is absolute, its components
\* begin with those of r, and none of them is "." or "..".
IsAtOrBeneath(r, p) ==
  LET rs == NonEmpty(Split(r))
      ps == NonEmpty(Split(p))
  IN /\ Len(p) > 0 /\ p[1] = "/"
     /\ Len(ps) >= Len(rs)
     /\ SubSeq(ps, 1, Len(rs)) = rs
     /\ \A i \in 1..Len(ps) : ps[i] \notin {Dot, DotDot}

\* C3: for every wire path, toRealPath yields the virtual root or a path beneath it.
C3_RealPathInsideRoot ==
  pathPc = "real" => IsAtOrBeneath(root, realPath)

\* C3 witness: "/../a" under root "/a/b" has been resolved, to "/a/b/a".
C3_Witness ==
  /\ pathPc = "real"
  /\ root = <<"/", "a", "/", "b">>
  /\ wirePath = <<"/", ".", ".", "/", "a">>
  /\ realPath = <<"/", "a", "/", "b", "/", "a">>

\* C20: for every virtual root and every wire path p, toVirtualPath applied to
\* toRealPath(p) gives the normalized absolute form of p.
C20_VirtualRoundTrip ==
  pathPc = "virtual" => virtualPath = PathJoin(Slash, wirePath)

\* C21: a path returned by the underlying filesystem that is neither the
\* virtual root nor beneath it is mapped to "/" by toVirtualPath.
C21_OutsideRootMapsToSlash ==
  (pathPc = "returned" /\ ~IsAtOrBeneath(root, realPath)) => virtualPath = Slash

\* ---------------------------------------------------------------------------
\* SafeFilesystem: claims

\* Underlying calls in flight on real descriptor r.
CallsOn(r) == {c \in fsCalls : c.real = r}

\* C2: for every handle, at most one underlying filesystem call is in flight on
\* that handle's descriptor at any time, also while end() is closing handles.
C2_OneCallPerDescriptor == \A r \in 1..MaxInfos : Cardinality(CallsOn(r)) <= 1

\* The operations a read-only SafeFilesystem must refuse whatever their arguments.
RefusedKinds == {"write", "fsetstat", "fcopy"} \cup MutatingPathOps

\* C4: in read-only mode no write, setstat, fsetstat, unlink, mkdir, rmdir,
\* rename, symlink, link, fcopy or open with flags other than "r" reaches the
\* underlying filesystem, and each such request has failed with EROFS.
C4_ReadOnlyRefuses ==
  readOnly =>
    /\ \A e \in fsLog : e.op \notin RefusedKinds /\ (e.op = "open" => e.arg = "r")
    /\ \A t \in 1..Len(tasks) :
         (tasks[t].kind \in RefusedKinds \/ (tasks[t].kind = "open" /\ tasks[t].flags # "r"))
           => tasks[t].st = "done" /\ tasks[t].res = "EROFS"

C4_Witness ==
  /\ readOnly
  /\ Len(tasks) = 3
  /\ tasks[1].kind = "open" /\ tasks[1].flags = "r" /\ tasks[1].res = "ok"
  /\ tasks[2].kind = "write" /\ tasks[2].res = "EROFS"
  /\ tasks[3].kind = "open" /\ tasks[3].flags = "#1" /\ tasks[3].res = "EROFS"
  /\ fsLog = {[op |-> "open", real |-> 0, arg |-> "r"]}

\* The calls of the underlying close made for the descriptor r.
ClosesOf(r) == {e \in fsLog : e.op = "close" /\ e.real = r}

C26_NoDispatchAfterClose ==
  [][\A c \in fsCalls' \ fsCalls :
       (c.task # NoTask /\ c.real # 0) =>
         [op |-> "close", real |-> c.real, arg |-> ""] \notin fsLog]_vars

\* The operation t occupies the HandleInfo i: its action has been started by
\* _execute and its done() has not got as far as starting the next action.
Holds(t, i) ==
  IF tasks[t].kind = "fcopy"
    THEN (tasks[t].info = i /\ tasks[t].fr) \/ (tasks[t].info2 = i /\ tasks[t].tr)
  ELSE /\ tasks[t].kind \notin {"open", "opendir"}
       /\ tasks[t].info = i
       /\ tasks[t].st \in {"active", "deferred", "dropped"}

\* No underlying call is in flight and no tick is pending.
Quiescent ==
  /\ fsCalls = {}
  /\ \A t \in 1..Len(tasks) : tasks[t].st # "deferred"

\* C27: operations submitted on a busy handle wait in its queue in the order
\* of submission, the queue gives up its head only, an operation is started
\* only when no other occupies the handle, and no operation is left in a
\* queue once every underlying call has completed.
C27_QueueFifoAndLive ==
  /\ [](\A i \in 1..Len(infos) :
          /\ \A a, b \in 1..Len(infos[i].actions) :
               a < b => infos[i].actions[a][1] < infos[i].actions[b][1]
          /\ infos[i].actions # <<>> => infos[i].busy
          /\ Cardinality({t \in 1..Len(tasks) : Holds(t, i)}) <= 1)
  /\ [][\A i \in 1..Len(infos) :
          Len(infos'[i].actions) < Len(infos[i].actions) =>
            /\ infos'[i].actions = Tail(infos[i].actions)
            /\ \A t \in 1..Len(tasks) : t = Head(infos[i].actions)[1] => Holds(t, i)'
            /\ \A t \in 1..Len(tasks) : Holds(t, i) => ~Holds(t, i)']_vars
  /\ [](Quiescent => \A i \in 1..Len(infos) : infos[i].actions = <<>>)

\* C28: while an underlying call of an fcopy is in flight, the fcopy occupies
\* its source and its destination handle, both busy; with one handle for both
\* it has entered that handle's queue discipline once.
C28_FcopyHoldsBothHandles ==
  \A c \in fsCalls :
    (c.task # NoTask /\ tasks[c.task].kind = "fcopy") =>
      LET task == tasks[c.task]
      IN /\ task.fr /\ task.tr
         /\ task.info # 0 /\ infos[task.info].busy
         /\ Holds(c.task, task.info)
         /\ \A t \in 1..Len(tasks) : Holds(t, task.info) => t = c.task
         /\ IF task.safe = task.safe2
              THEN /\ task.info2 = 0
                   /\ \A j \in 1..Len(infos[task.info].actions) :
                        infos[task.info].actions[j][1] # c.task
            ELSE /\ task.info2 # 0 /\ infos[task.info2].busy
                 /\ \A t \in 1..Len(tasks) : Holds(t, task.info2) => t = c.task

\* An fcopy from one open file to another has an underlying call in flight
\* after an earlier read on one of the handles has completed.
C28_Witness ==
  \E c \in fsCalls :
    /\ c.task # NoTask
    /\ tasks[c.task].kind = "fcopy"
    /\ tasks[c.task].safe # tasks[c.task].safe2
    /\ tasks[c.task].fh # 0 /\ tasks[c.task].th # 0
    /\ \E t \in 1..Len(tasks) : t < c.task /\ tasks[t].kind = "read" /\ tasks[t].st = "done"

\* C29: once every underlying call has completed, every fcopy has invoked its
\* callback, and when all operations have, no handle is busy.
C29_FcopyTerminates ==
  Quiescent =>
    /\ \A t \in 1..Len(tasks) : tasks[t].kind = "fcopy" => tasks[t].st = "done"
    /\ (\A t \in 1..Len(tasks) : tasks[t].st = "done") =>
         \A i \in 1..Len(infos) : ~infos[i].busy

\* C30: after end() has run and every underlying call has completed, every
\* descriptor opened for the session has had the underlying close called.
C30_EndLeavesNothingOpen ==
  (endPc = "done" /\ fsCalls = {}) =>
    \A i \in 1..Len(infos) : infos[i].real # 0 => ClosesOf(infos[i].real) # {}

(***************************************************************************)
(* SftpClient and SftpClientCore (sftp-client.ts) over one WebSocketChannel *)
(***************************************************************************)
MaxCalls == 2   \* operations called on the client in one run

\* The largest and the smallest signed 32-bit integer.
MaxInt32 == 2147483647
MinInt32 == (-MaxInt32) - 1

\* (id + 1) & 0xffffffff for a signed 32-bit id: a bit operation yields a signed
\* 32-bit integer, so the successor of MaxInt32 is MinInt32.
NextId(id) == IF id = MaxInt32 THEN MinInt32 ELSE id + 1

\* SftpPacketWriter.writeInt32: the four bytes of the value, high byte first.
writeInt32(value) ==
  <<(value \div 2^24) % 256, (value \div 2^16) % 256, (value \div 2^8) % 256, value % 256>>

\* SftpPacketReader.readUInt32: the bytes are assembled with << and |=, so the
\* result is a signed 32-bit integer (negative when the high byte is 128 or more).
readUInt32(bytes) ==
  (IF bytes[1] >= 128 THEN bytes[1] - 256 ELSE bytes[1]) * 2^24
    + bytes[2] * 2^16 + bytes[3] * 2^8 + bytes[4]

\* SftpPacketReader.readInt32: subtracts 2^32 when bit 31 of readUInt32's result
\* is set. The JS number q * 2^32 + v is written <<q, v>>, v a signed 32-bit integer.
readInt32(bytes) ==
  LET value == readUInt32(bytes)
  IN IF value < 0 THEN <<-1, value>> ELSE <<0, value>>

\* The operations of the client by the response parser they install.
ClientOps == {"close", "lstat", "open"}

\* The packet type that parseStatus, parseAttribs, parseHandle expect; a STATUS
\* packet with code OK is the type "STATUS_OK" here.
ExpectedType(op) ==
  CASE op = "close" -> "STATUS_OK"
    [] op = "lstat" -> "ATTRS"
    [] op = "open" -> "HANDLE"

ResponseTypes == {"STATUS_OK", "STATUS_ERR", "HANDLE", "ATTRS", "VERSION"}
VersionTypes == {"VERSION", "VERSION_BAD"}

\* checkResponse followed by the parser's own callback: a STATUS packet with an
\* error code calls back with the error, the expected type calls back with the
\* result, any other type throws before any callback.
checkResponse(expected, type) ==
  IF type = "STATUS_ERR" THEN "error"
  ELSE IF type = expected THEN "ok"
  ELSE "throw"

\* CloseReason, and the code _init passes to host.close; close() without a
\* reason closes with NORMAL.
NORMAL == 1000
PROTOCOL_ERROR == 1002
HANDSHAKE_CLOSE_CODE == 3002

\* Array.prototype.forEach visits the array-index keys only.
IsArrayIndex(key) == key >= 0

Callback(calls, k, out) == [calls EXCEPT ![k].cb = @ + 1, ![k].out = out]

RECURSIVE CallbackAll(_, _, _)
CallbackAll(calls, ks, out) ==
  IF ks = {} THEN calls
  ELSE LET k == CHOOSE x \in ks : TRUE
       IN CallbackAll(Callback(calls, k, out), ks \ {k}, out)

\* SftpClientCore.failRequests: the table is replaced by an empty one and the
\* callback of every request forEach visits gets the error.
failRequests(calls, requests) ==
  CallbackAll(calls, {requests[id] : id \in {x \in DOMAIN requests : IsArrayIndex(x)}},
              "CONNECTION_LOST")

\* SftpClientCore.end
\* closed and code are the channel's state when end() is entered.
CoreEndFrom(closed, code) ==
  /\ cHost' = FALSE
  /\ chanClosed' = (closed \/ cHost)
  /\ cCloseCode' = IF cHost /\ ~closed THEN NORMAL ELSE code
  /\ cCalls' = failRequests(cCalls, cRequests)
  /\ cRequests' = EmptyMap
  /\ cInitReq' = FALSE

CoreEnd == CoreEndFrom(chanClosed, cCloseCode)

\* SftpClient.bind -> _bind -> SftpClientCore._init: INIT goes out with no ID.
ClientBind ==
  /\ ~cBound
  /\ cId = <<>>
  /\ cBound' = TRUE
  /\ cHost' = TRUE
  /\ cId' = <<1>>
  /\ wire' = Append(wire, 0)
  /\ cInitReq' = TRUE
  /\ cHandshake' = "pending"
  /\ UNCHANGED <<cRequests, chanClosed, cCloseCode, net, answered, cCalls, cTicks, cDelivered, cErrors>>

\* An operation of the client: getRequest, then execute.
ClientCall(op) ==
  /\ Len(cCalls) < MaxCalls
  /\ cId # <<>>
  /\ LET id == cId[1]
         k == Len(cCalls) + 1
         call == [op |-> op, id |-> id, sent |-> FALSE, cb |-> 0, out |-> "none"]
     IN /\ cId' = <<NextId(id)>>
        /\ IF ~cHost
             THEN /\ cTicks' = cTicks \cup {k}
                  /\ cCalls' = Append(cCalls, call)
                  /\ UNCHANGED <<wire, cRequests>>
           ELSE IF id \in DOMAIN cRequests
             THEN /\ cCalls' = Append(cCalls, [call EXCEPT !.out = "threw"])
                  /\ UNCHANGED <<wire, cRequests, cTicks>>
           ELSE /\ wire' = IF chanClosed THEN wire ELSE Append(wire, k)
                /\ cCalls' = Append(cCalls, [call EXCEPT !.sent = ~chanClosed])
                /\ cRequests' = MapPut(cRequests, id, k)
                /\ UNCHANGED cTicks
  /\ UNCHANGED <<cHost, cInitReq, cBound, cHandshake, chanClosed, cCloseCode, net, answered, cDelivered, cErrors>>

\* The nextTick callback of execute when there is no host.
NoConnectionTick(k) ==
  /\ k \in cTicks
  /\ cTicks' = cTicks \ {k}
  /\ cCalls' = Callback(cCalls, k, "NO_CONNECTION")
  /\ UNCHANGED <<cHost, cId, cInitReq, cRequests, cBound, cHandshake, chanClosed, cCloseCode, wire, net,
                 answered, cDelivered, cErrors>>

\* The server answers one request it has received, echoing the ID bytes.
ServerRespond(j, type) ==
  /\ j \in 1..Len(wire)
  /\ j \notin answered
  /\ ~chanClosed
  /\ IF wire[j] = 0 THEN type \in VersionTypes ELSE type \in ResponseTypes
  /\ answered' = answered \cup {j}
  /\ net' = net \cup {[from |-> wire[j], type |-> type,
                       bytes |-> IF wire[j] = 0 THEN <<>> ELSE writeInt32(cCalls[wire[j]].id)]}
  /\ UNCHANGED <<cHost, cId, cInitReq, cRequests, cBound, cHandshake, chanClosed, cCloseCode, wire,
                 cCalls, cTicks, cDelivered, cErrors>>

\* The channel's message listener: SftpClientCore._process inside try/catch; a
\* closed channel drops the message.
Deliver(r) ==
  /\ r \in net
  /\ net' = net \ {r}
  /\ IF chanClosed
       THEN UNCHANGED <<cHost, cInitReq, cRequests, cBound, cHandshake, chanClosed, cCloseCode, cCalls,
                        cDelivered, cErrors>>
     ELSE IF r.type \in VersionTypes
       THEN \* the reader gives a VERSION packet the ID null
            IF ~cInitReq
              THEN /\ cErrors' = cErrors \cup {r.from}
                   /\ cDelivered' = cDelivered \cup {[from |-> r.from, type |-> r.type, to |-> -1]}
                   /\ UNCHANGED <<cHost, cInitReq, cRequests, cBound, cHandshake, chanClosed, cCloseCode, cCalls>>
            ELSE IF r.type = "VERSION"
              THEN /\ cInitReq' = FALSE
                   /\ cHandshake' = "done"
                   /\ cDelivered' = cDelivered \cup {[from |-> r.from, type |-> r.type, to |-> 0]}
                   /\ UNCHANGED <<cHost, cRequests, cBound, chanClosed, cCloseCode, cCalls, cErrors>>
            ELSE \* host.close(3002), then the callback of _bind: sftp.end()
                 /\ CoreEndFrom(TRUE, HANDSHAKE_CLOSE_CODE)
                 /\ cBound' = FALSE
                 /\ cHandshake' = "failed"
                 /\ cDelivered' = cDelivered \cup {[from |-> r.from, type |-> r.type, to |-> 0]}
                 /\ UNCHANGED cErrors
     ELSE LET id == readInt32(r.bytes)
          IN IF id[1] # 0 \/ id[2] \notin DOMAIN cRequests
               THEN /\ cErrors' = cErrors \cup {r.from}
                    /\ cDelivered' = cDelivered \cup {[from |-> r.from, type |-> r.type, to |-> -1]}
                    /\ UNCHANGED <<cHost, cInitReq, cRequests, cBound, cHandshake, chanClosed, cCloseCode, cCalls>>
             ELSE LET k == cRequests[id[2]]
                      result == checkResponse(ExpectedType(cCalls[k].op), r.type)
                  IN /\ cRequests' = MapRemove(cRequests, id[2])
                     /\ cDelivered' = cDelivered \cup {[from |-> r.from, type |-> r.type, to |-> k]}
                     /\ IF result = "throw"
                          THEN cErrors' = cErrors \cup {r.from} /\ UNCHANGED cCalls
                        ELSE cCalls' = Callback(cCalls, k, result) /\ UNCHANGED cErrors
                     /\ UNCHANGED <<cHost, cInitReq, cBound, cHandshake, chanClosed, cCloseCode>>
  /\ UNCHANGED <<cId, wire, answered, cTicks>>

\* SftpClient.end
ClientEnd ==
  /\ cHandshake # "none"
  /\ cHost \/ cInitReq \/ cRequests # EmptyMap
  /\ CoreEnd
  /\ UNCHANGED <<cId, cBound, cHandshake, wire, net, answered, cTicks, cDelivered, cErrors>>

\* The WebSocket closes from the other side: WebSocketChannel._close marks the
\* channel closed and runs the close listener of _bind on the next tick.
ChannelClose ==
  /\ cBound
  /\ ~chanClosed
  /\ IF cHandshake = "pending"
       THEN /\ cHandshake' = "failed"
            /\ chanClosed' = TRUE
            /\ cCloseCode' = NORMAL
            /\ UNCHANGED <<cHost, cInitReq, cRequests, cBound, cCalls>>
     ELSE /\ CoreEnd
          /\ cBound' = FALSE
          /\ UNCHANGED cHandshake
  /\ UNCHANGED <<cId, wire, net, answered, cTicks, cDelivered, cErrors>>

\* A long run of operations, each answered as expected before the next is
\* called: the state it leaves differs from the one it started in by _id only.
\* The run ends with the request MaxInt32 answered.
AnsweredRun ==
  /\ cHost
  /\ ~chanClosed
  /\ cHandshake = "done"
  /\ cRequests = EmptyMap
  /\ net = {}
  /\ cId[1] >= 1
  /\ cId' = <<NextId(MaxInt32)>>
  /\ UNCHANGED <<cHost, cInitReq, cRequests, cBound, cHandshake, chanClosed, cCloseCode, wire, net,
                 answered, cCalls, cTicks, cDelivered, cErrors>>

InitClient ==
  /\ PathIdle
  /\ SafeIdle
  /\ ClientIdle
  /\ FuseIdle
  /\ FlushIdle
  /\ AllocIdle
  /\ SourceIdle
  /\ DirIdle
  /\ LinkIdle
  /\ ReadIdle
  /\ IdsIdle
  /\ SessIdle
  /\ CodecIdle
  /\ RenIdle
  /\ ChanIdle

NextClient ==
  \/ ClientBind /\ UNCHANGED notClientVars
  \/ \E op \in ClientOps : ClientCall(op) /\ UNCHANGED notClientVars
  \/ \E k \in cTicks : NoConnectionTick(k) /\ UNCHANGED notClientVars
  \/ \E j \in 1..Len(wire), type \in ResponseTypes \cup VersionTypes :
       ServerRespond(j, type) /\ UNCHANGED notClientVars
  \/ \E r \in net : Deliver(r) /\ UNCHANGED notClientVars
  \/ ClientEnd /\ UNCHANGED notClientVars
  \/ ChannelClose /\ UNCHANGED notClientVars
  \/ AnsweredRun /\ UNCHANGED notClientVars

SpecClient == InitClient /\ [][NextClient]_vars

\* ---------------------------------------------------------------------------
\* Client: claims

\* The operation k still has its request in the table.
InTable(k) == \E id \in DOMAIN cRequests : cRequests[id] = k

\* C1: the callback of every request sent with a request ID is invoked exactly
\* once: never twice, and once the request has left the request table (through
\* a response with its ID or through the close of the channel) it has been
\* invoked.
C1_CallbackExactlyOnce ==
  \A k \in 1..Len(cCalls) :
    cCalls[k].sent => /\ cCalls[k].cb <= 1
                      /\ ~InTable(k) => cCalls[k].cb = 1

\* C9: a step that closes the client's channel (end(), or the close event after
\* the handshake) invokes the callback of every request in the request table
\* with the CONNECTION_LOST error and leaves the table empty.
C9_CloseFailsAllRequests ==
  [][(cHost /\ ~cHost') =>
       /\ cRequests' = EmptyMap
       /\ \A k \in 1..Len(cCalls) :
            InTable(k) => cCalls'[k].out = "CONNECTION_LOST" /\ cCalls'[k].cb = cCalls[k].cb + 1]_vars

\* C10: requests are written to the channel in call order, and every response
\* the client processes is handed to the callback and parser of the request
\* that was sent with the same ID (a VERSION packet carries no ID).
C10_OrderAndCorrelation ==
  /\ \A i, j \in 1..Len(wire) : i < j => wire[i] < wire[j]
  /\ \A d \in cDelivered : d.type \notin VersionTypes => d.to = d.from

\* C11: a step in which the client meets a protocol error (a response whose ID
\* is not in the request table, or whose packet type is not valid for its
\* request) closes the channel and invokes the callback of every request that
\* was outstanding, the request of the offending response included.
C11_ProtocolErrorCloses ==
  [][(cErrors' # cErrors) =>
       /\ chanClosed'
       /\ cRequests' = EmptyMap
       /\ \A k \in 1..Len(cCalls) : InTable(k) => cCalls'[k].cb = cCalls[k].cb + 1]_vars

\* The reply to INIT was processed and was not a VERSION packet of version 3.
HandshakeRejected == \E d \in cDelivered : d.type = "VERSION_BAD" /\ d.to = 0

\* C12: when the reply to INIT is not a VERSION packet of version 3, the
\* client has closed the channel with close code 1002 (PROTOCOL_ERROR) and the
\* handshake has failed.
C12_HandshakeCloseCode ==
  HandshakeRejected => /\ chanClosed
                       /\ cCloseCode = PROTOCOL_ERROR
                       /\ cHandshake = "failed"

\* C38: once the channel handed to bind() has closed, before or after the
\* handshake completed, the client is not bound any more: SftpClient._bound is
\* false and the core has no host.
C38_ClosedChannelUnbinds == chanClosed => ~cBound /\ ~cHost

(***************************************************************************)
(* SftpFuse (sftp-fuse.ts): lifecycle, reconnect loop, caches, kernel calls *)
(***************************************************************************)
MaxRefusals == 2      \* connection attempts the server refuses in one run
MaxConnects == 2      \* connections established in one run
MaxKernelCalls == 3   \* kernel callbacks entered in one run

\* d starts at 1000 ms and is multiplied by RECONNECT_DELAY_GROW = 1.3 up to
\* MAX_RECONNECT_DELAY_MS = 7500: the eighth growth reaches the cap.
GROWTHS_TO_MAX_DELAY == 8

\* if (d <= MAX_RECONNECT_DELAY_MS) d = Math.min(MAX_RECONNECT_DELAY_MS, d * 1.3)
GrowDelay(d) == IF d < GROWTHS_TO_MAX_DELAY THEN d + 1 ELSE d

\* What the loop of handleConnectionClose does after a failed attempt.
LoopAfterFailureGivesUp == "none"
LoopAfterFailure == "delay"

\* SftpFuse.processAttr: the attribute-cache entry stored for the outcome of a
\* request issued at epoch ep; a failure is stored as its errno.
processAttrDropsErrors(ok, ep) == IF ok THEN <<ep, "attr">> ELSE <<>>
processAttr(ok, ep) == IF ok THEN <<ep, "attr">> ELSE <<ep, "errno">>

\* The largest epoch among the in-flight requests of one kind, as a cache entry.
LastEpoch(reqs) == <<CHOOSE e \in {r.ep : r \in reqs} : \A r \in reqs : r.ep <= e>>

\* sftp.end() fails every request in flight: getattr caches the error for the
\* path, readlink caches the (undefined) target, readdir caches nothing.
FailInflight ==
  LET lstats == {r \in fInflight : r.op = "lstat"}
      links == {r \in fInflight : r.op = "readlink"}
  IN /\ attrCache' = IF lstats = {} THEN attrCache
                     ELSE [attrCache EXCEPT ![File] = processAttr(FALSE, LastEpoch(lstats)[1])]
     /\ linkCache' = IF links = {} THEN linkCache
                     ELSE [linkCache EXCEPT ![File] = LastEpoch(links)]
     /\ fLast' = IF fInflight = {} THEN fLast
                 ELSE [st |-> "ready", res |-> "err", stale |-> FALSE]
     /\ fInflight' = {}
     /\ UNCHANGED dirCache

\* handleConnectionClose up to its first await.
HandleConnectionClose ==
  /\ fSftp' = 0
  /\ fState' = "init"
  /\ IF fReconnect THEN fConn' = "delay" /\ fD' = 0
     ELSE fConn' = (IF fConn = "initial" THEN "none" ELSE fConn) /\ UNCHANGED fD

\* SftpFuse.connect up to the await inside connectToServer.
FuseConnect ==
  /\ fConn = "unstarted"
  /\ fState = "init"
  /\ fState' = "connecting"
  /\ fConn' = "initial"
  /\ UNCHANGED <<fSftp, fConns, fReconnect, fD, fRefusals, fEnded, attrCache, dirCache,
                 linkCache, fMut, fInflight, fCalls, fLast, fIssued>>

\* The await of sftp.connect in connectToServer settles. On success the client
\* is stored and the state set to "ready"; on failure the state is set to
\* "init" and the error goes to connect() or to the reconnect loop.
ConnectSettle(ok) ==
  /\ fConn \in {"initial", "attempt"}
  /\ IF ok
       THEN /\ fConns' = fConns + 1
            /\ fSftp' = fConns + 1
            /\ fState' = "ready"
            /\ fConn' = "none"
            /\ UNCHANGED <<fD, fRefusals>>
     ELSE /\ fRefusals < MaxRefusals
          /\ fRefusals' = fRefusals + 1
          /\ UNCHANGED fConns
          /\ IF fConn = "initial"
               THEN HandleConnectionClose
             ELSE /\ fState' = "init"
                  /\ fD' = GrowDelay(fD)
                  /\ fConn' = LoopAfterFailure
                  /\ UNCHANGED fSftp
  /\ UNCHANGED <<fReconnect, fEnded, attrCache, dirCache, linkCache, fMut, fInflight, fCalls,
                 fLast, fIssued>>

\* The await of delay(d) in the loop ends and connectToServer is called: it
\* throws at once unless the state is "init".
LoopDelayElapsed ==
  /\ fConn = "delay"
  /\ IF fState = "init"
       THEN fState' = "connecting" /\ fConn' = "attempt" /\ UNCHANGED fD
     ELSE fD' = GrowDelay(fD) /\ fConn' = LoopAfterFailure /\ UNCHANGED fState
  /\ UNCHANGED <<fSftp, fConns, fReconnect, fRefusals, fEnded, attrCache, dirCache, linkCache,
                 fMut, fInflight, fCalls, fLast, fIssued>>

\* The channel of the connected client closes: the client fails its requests and
\* emits "close", which runs handleConnectionClose.
FuseChannelClosed ==
  /\ fSftp # 0
  /\ fConns < MaxConnects
  /\ FailInflight
  /\ HandleConnectionClose
  /\ UNCHANGED <<fConns, fReconnect, fRefusals, fEnded, fMut, fCalls, fIssued>>

\* SftpFuse.end: this.sftp?.end() fails the requests and emits "close"
\* synchronously (handleConnectionClose runs up to its await), then the client
\* is deleted and the state set to "closed".
FuseEnd ==
  /\ ~fEnded
  /\ fEnded' = TRUE
  /\ fState' = "closed"
  /\ fSftp' = 0
  /\ IF fSftp # 0
       THEN /\ FailInflight
            /\ IF fReconnect THEN fConn' = "delay" /\ fD' = 0 ELSE UNCHANGED <<fConn, fD>>
     ELSE UNCHANGED <<fConn, fD, attrCache, dirCache, linkCache, fInflight, fLast>>
  /\ UNCHANGED <<fConns, fReconnect, fRefusals, fMut, fCalls, fIssued>>

\* The kernel callbacks of the adapter.
KernelOps ==
  {"init", "statfs", "getattr", "fgetattr", "flush", "fsync", "fsyncdir", "readdir",
   "truncate", "ftruncate", "readlink", "chown", "utimens", "chmod", "open", "read", "write",
   "release", "releasedir", "create", "unlink", "rename", "link", "symlink", "mkdir", "rmdir"}

\* init, fsyncdir and chown call cb(0) and nothing else.
UncheckedOps == {"init", "fsyncdir", "chown"}

\* The callbacks that call clearCache(path) and then issue one request.
ClearingOps ==
  {"truncate", "ftruncate", "open", "create", "unlink", "rename", "link", "symlink", "mkdir",
   "rmdir"}

\* The callbacks that only forward one request.
ForwardingOps == {"statfs", "read", "release", "releasedir"}

\* path.dirname for the paths of the model.
dirname(path) == Dir

\* SftpFuse.clearCache: the attribute entry of the path and the listings of the
\* path and of its parent; the link cache is left alone.
clearCache(path) ==
  /\ attrCache' = [attrCache EXCEPT ![path] = <<>>]
  /\ dirCache' = [dirCache EXCEPT ![path] = <<>>, ![dirname(path)] = <<>>]
  /\ UNCHANGED linkCache

\* An answer to a kernel callback, with the state the adapter is in.
Answer(op, res, stale) == [st |-> fState, res |-> res, stale |-> stale]
\* A request handed to the client, recorded by the state the adapter is in.
Request(op) == fState

\* isNotReady
isNotReady == fState # "ready"

\* A cache lookup on entry of getattr/fgetattr, readdir, readlink: a hit answers
\* from the cache, a miss issues the request.
CachedOrRequest(op, entry, request) ==
  IF entry # <<>>
    THEN \* getattr: cb(errno ?? 0, attr)
         /\ fLast' = Answer(op, IF Len(entry) = 2 /\ entry[2] = "errno" THEN "cached errno"
                                ELSE "cached", entry[1] < fMut)
         /\ UNCHANGED <<fInflight, fIssued>>
  ELSE /\ fInflight' = fInflight \cup {[op |-> request, ep |-> fMut]}
       /\ fIssued' = Request(request)
       /\ UNCHANGED fLast

\* One kernel callback is entered with the file's path (readdir: with the
\* directory's). buffered says whether flush finds data buffered for the fd.
KernelCall(op, buffered) ==
  /\ fCalls < MaxKernelCalls
  /\ fCalls' = fCalls + 1
  /\ IF op \in UncheckedOps
       THEN /\ fLast' = Answer(op, "0", FALSE)
            /\ UNCHANGED <<attrCache, dirCache, linkCache, fMut, fInflight, fIssued>>
     ELSE IF op = "utimens"
       THEN /\ clearCache(File)
            /\ fMut' = fMut + 1
            /\ IF fSftp = 0
                 THEN fLast' = Answer(op, "threw", FALSE) /\ UNCHANGED fIssued
               ELSE fIssued' = Request("setstat") /\ UNCHANGED fLast
            /\ UNCHANGED fInflight
     ELSE IF isNotReady
       THEN /\ fLast' = Answer(op, "ENOTCONN", FALSE)
            /\ UNCHANGED <<attrCache, dirCache, linkCache, fMut, fInflight, fIssued>>
     ELSE IF op \in {"getattr", "fgetattr"}
       THEN /\ CachedOrRequest(op, attrCache[File], "lstat")
            /\ UNCHANGED <<attrCache, dirCache, linkCache, fMut>>
     ELSE IF op = "readdir"
       THEN /\ CachedOrRequest(op, dirCache[Dir], "opendir")
            /\ UNCHANGED <<attrCache, dirCache, linkCache, fMut>>
     ELSE IF op = "readlink"
       THEN /\ CachedOrRequest(op, linkCache[File], "readlink")
            /\ UNCHANGED <<attrCache, dirCache, linkCache, fMut>>
     ELSE IF op \in ClearingOps
       THEN /\ clearCache(File)
            /\ fMut' = fMut + 1
            /\ fIssued' = Request(op)
            /\ UNCHANGED <<fInflight, fLast>>
     ELSE IF op = "chmod"
       THEN /\ attrCache' = [attrCache EXCEPT ![File] = <<>>]
            /\ fMut' = fMut + 1
            /\ fIssued' = Request("setstat")
            /\ UNCHANGED <<dirCache, linkCache, fInflight, fLast>>
     ELSE IF op = "write"
       THEN /\ clearCache(File)
            /\ fMut' = fMut + 1
            /\ fLast' = Answer(op, "length", FALSE)
            /\ UNCHANGED <<fInflight, fIssued>>
     ELSE IF op \in {"flush", "fsync"}
       THEN IF buffered
              THEN /\ clearCache(File)
                   /\ fMut' = fMut + 1
                   /\ fIssued' = Request("write")
                   /\ UNCHANGED <<fInflight, fLast>>
            ELSE /\ fLast' = Answer(op, "0", FALSE)
                 /\ UNCHANGED <<attrCache, dirCache, linkCache, fMut, fInflight, fIssued>>
     ELSE /\ fIssued' = Request(op)
          /\ UNCHANGED <<attrCache, dirCache, linkCache, fMut, fInflight, fLast>>
  /\ UNCHANGED <<fState, fSftp, fConns, fReconnect, fConn, fD, fRefusals, fEnded>>

\* The response to a request of getattr, readdir or readlink arrives.
\* listed: the file is among the items of the directory listing.
FuseResponse(r, ok, listed) ==
  /\ r \in fInflight
  /\ LET rest == fInflight \ {r}
         res == IF ok THEN "ok" ELSE "err"
     IN CASE r.op = "lstat" ->
               \* processAttr stores the attributes, or the errno of the failure
               /\ attrCache' = [attrCache EXCEPT ![File] = processAttr(ok, r.ep)]
               /\ fLast' = Answer("getattr", res, FALSE)
               /\ fInflight' = rest
               /\ UNCHANGED <<dirCache, linkCache, fIssued>>
          [] r.op = "opendir" ->
               IF ok
                 THEN /\ fInflight' = rest \cup {[op |-> "readdir", ep |-> fMut]}
                      /\ fIssued' = Request("readdir")
                      /\ UNCHANGED <<attrCache, dirCache, linkCache, fLast>>
               ELSE /\ fLast' = Answer("readdir", res, FALSE)
                    /\ fInflight' = rest
                    /\ UNCHANGED <<attrCache, dirCache, linkCache, fIssued>>
          [] r.op = "readdir" ->
               /\ fLast' = Answer("readdir", res, FALSE)
               /\ fInflight' = rest
               /\ fIssued' = Request("close")
               /\ dirCache' = IF ok THEN [dirCache EXCEPT ![Dir] = <<r.ep>>] ELSE dirCache
               /\ attrCache' = IF ok /\ listed THEN [attrCache EXCEPT ![File] = <<r.ep, "attr">>]
                               ELSE attrCache
               /\ UNCHANGED linkCache
          [] r.op = "readlink" ->
               \* the target is stored whether or not the request failed
               /\ linkCache' = [linkCache EXCEPT ![File] = <<r.ep>>]
               /\ fLast' = Answer("readlink", res, FALSE)
               /\ fInflight' = rest
               /\ UNCHANGED <<attrCache, dirCache, fIssued>>
  /\ UNCHANGED <<fState, fSftp, fConns, fReconnect, fConn, fD, fRefusals, fEnded, fMut, fCalls>>

\* The TTL of one cache entry runs out.
CacheExpire(cache, path) ==
  /\ CASE cache = "attr" -> /\ attrCache[path] # <<>>
                            /\ attrCache' = [attrCache EXCEPT ![path] = <<>>]
                            /\ UNCHANGED <<dirCache, linkCache>>
       [] cache = "dir" -> /\ dirCache[path] # <<>>
                           /\ dirCache' = [dirCache EXCEPT ![path] = <<>>]
                           /\ UNCHANGED <<attrCache, linkCache>>
       [] cache = "link" -> /\ linkCache[path] # <<>>
                            /\ linkCache' = [linkCache EXCEPT ![path] = <<>>]
                            /\ UNCHANGED <<attrCache, dirCache>>
  /\ UNCHANGED <<fState, fSftp, fConns, fReconnect, fConn, fD, fRefusals, fEnded, fMut,
                 fInflight, fCalls, fLast, fIssued>>

InitFuse ==
  /\ PathIdle
  /\ SafeIdle
  /\ ClientIdle
  /\ FlushIdle
  /\ AllocIdle
  /\ SourceIdle
  /\ DirIdle
  /\ LinkIdle
  /\ ReadIdle
  /\ IdsIdle
  /\ SessIdle
  /\ CodecIdle
  /\ RenIdle
  /\ ChanIdle
  /\ fState = "init"
  /\ fSftp = 0
  /\ fConns = 0
  /\ fReconnect \in BOOLEAN
  /\ fConn = "unstarted"
  /\ fD = 0
  /\ fRefusals = 0
  /\ fEnded = FALSE
  /\ attrCache = EmptyCache
  /\ dirCache = EmptyCache
  /\ linkCache = EmptyCache
  /\ fMut = 0
  /\ fInflight = {}
  /\ fCalls = 0
  /\ fLast = NoAnswer
  /\ fIssued = NoRequest

NextFuse ==
  \/ FuseConnect /\ UNCHANGED notFuseVars
  \/ \E ok \in BOOLEAN : ConnectSettle(ok) /\ UNCHANGED notFuseVars
  \/ LoopDelayElapsed /\ UNCHANGED notFuseVars
  \/ FuseChannelClosed /\ UNCHANGED notFuseVars
  \/ FuseEnd /\ UNCHANGED notFuseVars
  \/ \E op \in KernelOps, buffered \in BOOLEAN : KernelCall(op, buffered) /\ UNCHANGED notFuseVars
  \/ \E r \in fInflight, ok \in BOOLEAN, listed \in BOOLEAN :
       FuseResponse(r, ok, listed) /\ UNCHANGED notFuseVars
  \/ \E cache \in {"attr", "dir", "link"}, path \in FusePaths :
       CacheExpire(cache, path) /\ UNCHANGED notFuseVars

SpecFuse == InitFuse /\ [][NextFuse]_vars

\* The steps the scheduler owes the adapter: a delay that ends, a connection
\* attempt that settles. The server refuses at most MaxRefusals attempts.
FairLoop == LoopDelayElapsed /\ UNCHANGED notFuseVars
FairSettle == \E ok \in BOOLEAN : ConnectSettle(ok) /\ UNCHANGED notFuseVars

SpecFuseFair == InitFuse /\ [][NextFuse]_vars /\ WF_vars(FairLoop) /\ WF_vars(FairSettle)

\* end() called on a ready adapter.
FuseEndReady == fState = "ready" /\ FuseEnd

\* The adapter when end() is only ever called in the state "ready".
NextEnd ==
  \/ FuseConnect /\ UNCHANGED notFuseVars
  \/ \E ok \in BOOLEAN : ConnectSettle(ok) /\ UNCHANGED notFuseVars
  \/ LoopDelayElapsed /\ UNCHANGED notFuseVars
  \/ FuseChannelClosed /\ UNCHANGED notFuseVars
  \/ FuseEndReady /\ UNCHANGED notFuseVars
  \/ \E op \in KernelOps, buffered \in BOOLEAN : KernelCall(op, buffered) /\ UNCHANGED notFuseVars
  \/ \E r \in fInflight, ok \in BOOLEAN, listed \in BOOLEAN :
       FuseResponse(r, ok, listed) /\ UNCHANGED notFuseVars

SpecEndFair == InitFuse /\ [][NextEnd]_vars /\ WF_vars(FairLoop) /\ WF_vars(FairSettle)

\* ---------------------------------------------------------------------------
\* Adapter: claims

\* C5: once a mutating operation on the file has been issued, a later getattr,
\* readdir of the parent or readlink is never answered from a cache entry that
\* came from a request issued before the mutation.
C5_NoStaleCacheAnswer == ~fLast.stale

\* C6: the state "closed" is terminal: once end() has been called the state is
\* "closed" whatever completes afterwards.
C6_ClosedIsTerminal == fEnded => fState = "closed"

\* C7: when the channel of a ready adapter closes the state becomes "init", and
\* with auto-reconnect a waiting reconnect loop leads to "ready" again unless
\* end() is called; the server refuses only finitely many attempts.
C7_ReconnectsEventually ==
  /\ [][(fSftp # 0 /\ fSftp' = 0 /\ ~fEnded') => fState' = "init"]_vars
  /\ (fReconnect /\ fState = "init" /\ fConn = "delay") ~> (fState = "ready" \/ fEnded)

C7_Witness ==
  /\ fReconnect
  /\ ~fEnded
  /\ fState = "ready"
  /\ fConns = 2
  /\ fRefusals = MaxRefusals
  /\ fD > 0

\* C39: after end() on a ready adapter with auto-reconnect, the reconnect loop
\* started by the close notification of end() terminates: eventually no delay
\* and no connection attempt of the loop is pending.
C39_EndStopsReconnectLoop == (fEnded /\ fReconnect) ~> (fConn \notin {"delay", "attempt"})

\* C8: a kernel callback entered while the state is not "ready" reports
\* ENOTCONN, and no client request is issued in such a state.
C8_NotReadyReportsENOTCONN ==
  /\ fLast.st \notin {"none", "ready"} => fLast.res = "ENOTCONN"
  /\ fIssued \in {"none", "ready"}

\* C13: every mutating callback that reaches the server removes the attribute
\* entry and the link entry of its path and the directory entries of the path
\* and of its parent.
C13_MutationInvalidates ==
  [][(fMut' # fMut) =>
       /\ attrCache'[File] = <<>>
       /\ linkCache'[File] = <<>>
       /\ dirCache'[File] = <<>>
       /\ dirCache'[dirname(File)] = <<>>]_vars

\* The attribute cache holds the errno of a failed request for the file.
NegativeEntry == attrCache[File] # <<>> /\ attrCache[File][2] = "errno"

MaxWrites == 3        \* write callbacks entered in one run
MaxWriteLen == 2      \* bytes of one write
MaxPosition == 2      \* a write starts at a position in 0..MaxPosition
MaxFlushes == 2       \* flush and fsync callbacks entered in one run

\* MAX_WRITE_BLOCK_LENGTH (1 MiB) and the 50 records write lets a descriptor
\* hold, scaled to the lengths and counts above.
WriteBlockLength == 3
BufferedRecordLimit == 2

\* The status codes a WRITE is answered with.
WriteStatuses == {"OK", "NO_SUCH_FILE", "PERMISSION_DENIED", "FAILURE"}

\* SftpClientCore.createError: the code and errno of the error object.
createError(nativeCode) ==
  CASE nativeCode = "EOF" -> [code |-> "EOF", errno |-> 1]
    [] nativeCode = "NO_SUCH_FILE" -> [code |-> "ENOENT", errno |-> 34]
    [] nativeCode = "PERMISSION_DENIED" -> [code |-> "EACCES", errno |-> 3]
    [] nativeCode \in {"OK", "FAILURE", "BAD_MESSAGE"} -> [code |-> "EFAILURE", errno |-> -2]
    [] nativeCode = "NO_CONNECTION" -> [code |-> "ENOTCONN", errno |-> 31]
    [] nativeCode = "CONNECTION_LOST" -> [code |-> "ESHUTDOWN", errno |-> 46]
    [] nativeCode = "OP_UNSUPPORTED" -> [code |-> "ENOSYS", errno |-> 35]
    [] OTHER -> [code |-> "UNKNOWN", errno |-> -1]

\* Fuse[code] of fuse-native for the codes above that it defines (0: no entry).
FuseErrno(code) ==
  CASE code = "ENOENT" -> -2
    [] code = "EACCES" -> -13
    [] code = "ENOTCONN" -> -107
    [] code = "ESHUTDOWN" -> -108
    [] code = "ENOSYS" -> -38
    [] OTHER -> 0

\* getErrno for an error made by createError (its description is the server's
\* message, which names no errno).
getErrno(err) ==
  IF FuseErrno(err.code) # 0 THEN FuseErrno(err.code)
  ELSE IF err.errno < 0 THEN err.errno ELSE -err.errno

\* The catch block of flush: what the callback is given for a failed WRITE.
FlushCatch(err) == IF err.errno = -2 THEN 0 ELSE getErrno(err)

Min(a, b) == IF a < b THEN a ELSE b

\* The inner loop of flush: the records at the head of data that continue the
\* buffer are appended to it.
MergeRunNever(buffer, position, data) ==
  [buffer |-> buffer, position |-> position, data |-> data]

RECURSIVE MergeRun(_, _, _)
MergeRun(buffer, position, data) ==
  IF data # <<>> /\ data[1].position = Len(buffer) + position
    THEN MergeRun(buffer \o data[1].buffer, position, Tail(data))
  ELSE [buffer |-> buffer, position |-> position, data |-> data]

\* writeToDisk: the WRITE for the head of what is left of the buffer.
NextChunk(buf, pos) ==
  [position |-> pos, buffer |-> SubSeq(buf, 1, Min(WriteBlockLength, Len(buf)))]

\* flush from the top of its outer loop to the first WRITE of the next run, or
\* to cb(0) when no record is left.
FlushLoop(fl) ==
  IF fl.data = <<>> THEN [fl EXCEPT !.pc = "done", !.res = 0]
  ELSE LET run == MergeRun(fl.data[1].buffer, fl.data[1].position, Tail(fl.data))
       IN [fl EXCEPT !.data = run.data, !.buf = run.buffer, !.pos = run.position,
                     !.pc = "writing",
                     !.sent = Append(@, NextChunk(run.buffer, run.position))]

\* writeToDisk after a WRITE has succeeded: the next block of the buffer, or
\* back to the loop of flush.
AfterWrite(fl) ==
  LET n == Len(fl.sent[Len(fl.sent)].buffer)
      rest == SubSeq(fl.buf, n + 1, Len(fl.buf))
  IN IF rest # <<>>
       THEN [fl EXCEPT !.buf = rest, !.pos = @ + n,
                       !.sent = Append(@, NextChunk(rest, fl.pos + n))]
     ELSE FlushLoop([fl EXCEPT !.buf = <<>>])

\* flush up to its first await: data is this.data[fd] on entry; w is the write
\* callback that called flush (0: the kernel did).
EnterFlush(by, w, data) ==
  LET fl == [by |-> by, w |-> w, data |-> data, taken |-> data, buf |-> <<>>, pos |-> 0,
             sent |-> <<>>, pc |-> "done", res |-> 0, failed |-> "none"]
  IN FlushLoop(fl)

\* The WRITE requests of a step of flush reach the client in the step.
Sends(old, new) ==
  IF Len(new.sent) > Len(old) THEN wSent \o <<new.sent[Len(new.sent)]>> ELSE wSent

\* A variant of write that buffers the record and never calls flush.
WWriteUnbounded(length, position) ==
  /\ ~isNotReady
  /\ Len(wLog) < MaxWrites
  /\ ~wReleased
  /\ wData' = Append(wData, [position |-> position,
                             buffer |-> [i \in 1..length |-> Len(wLog) + 1]])
  /\ wLog' = Append(wLog, [position |-> position, length |-> length, cb |-> "length"])
  /\ UNCHANGED <<wFlushes, wSent, wReleased>>

\* SftpFuse.write: the record is buffered; the write that makes the buffer
\* longer than the limit calls flush and answers when flush has.
WWrite(length, position) ==
  /\ ~isNotReady
  /\ Len(wLog) < MaxWrites
  /\ ~wReleased
  /\ LET k == Len(wLog) + 1
         rec == [position |-> position, buffer |-> [i \in 1..length |-> k]]
         entry == [position |-> position, length |-> length, cb |-> "length"]
     IN IF wData = <<>>
          THEN /\ wData' = <<rec>>
               /\ wLog' = Append(wLog, entry)
               /\ UNCHANGED <<wFlushes, wSent>>
        ELSE IF Len(wData) + 1 > BufferedRecordLimit
          THEN LET fl == EnterFlush("write", k, Append(wData, rec))
               IN /\ wData' = <<>>
                  /\ wFlushes' = Append(wFlushes, fl)
                  /\ wSent' = Sends(<<>>, fl)
                  /\ wLog' = Append(wLog, [entry EXCEPT !.cb = "pending"])
        ELSE /\ wData' = Append(wData, rec)
             /\ wLog' = Append(wLog, entry)
             /\ UNCHANGED <<wFlushes, wSent>>
  /\ UNCHANGED wReleased

\* SftpFuse.flush, and SftpFuse.fsync which calls it, up to the first await.
WFlush(by) ==
  /\ ~isNotReady
  /\ Cardinality({i \in 1..Len(wFlushes) : wFlushes[i].by # "write"}) < MaxFlushes
  /\ ~wReleased
  /\ LET fl == EnterFlush(by, 0, wData)
     IN /\ wFlushes' = Append(wFlushes, fl)
        /\ wSent' = Sends(<<>>, fl)
  /\ wData' = <<>>
  /\ UNCHANGED <<wLog, wReleased>>

\* The response to the WRITE a flush awaits: writeToDisk and flush go on to the
\* next await, to cb(0), or to the catch block.
WWriteResponse(i, status) ==
  /\ wFlushes[i].pc = "writing"
  /\ LET fl == wFlushes[i]
         new == IF status = "OK" THEN AfterWrite(fl)
                ELSE [fl EXCEPT !.pc = "done", !.res = FlushCatch(createError(status)),
                                !.failed = status]
     IN /\ wFlushes' = [wFlushes EXCEPT ![i] = new]
        /\ wSent' = Sends(fl.sent, new)
        /\ wLog' = IF new.pc = "done" /\ fl.w # 0
                     THEN [wLog EXCEPT ![fl.w].cb = IF new.res = 0 THEN "length" ELSE "error"]
                   ELSE wLog
  /\ UNCHANGED <<wData, wReleased>>

\* SftpFuse.release: the handle is closed and the callback answered.
WRelease ==
  /\ ~isNotReady
  /\ ~wReleased
  /\ wReleased' = TRUE
  /\ UNCHANGED <<wData, wLog, wFlushes, wSent>>

\* The adapter is connected and the descriptor has just been opened.
InitFlush ==
  /\ PathIdle
  /\ SafeIdle
  /\ ClientIdle
  /\ FlushIdle
  /\ AllocIdle
  /\ SourceIdle
  /\ DirIdle
  /\ LinkIdle
  /\ ReadIdle
  /\ IdsIdle
  /\ SessIdle
  /\ CodecIdle
  /\ RenIdle
  /\ ChanIdle
  /\ fState = "ready"
  /\ fSftp = 1
  /\ fConns = 1
  /\ fReconnect = TRUE
  /\ fConn = "none"
  /\ fD = 0
  /\ fRefusals = 0
  /\ fEnded = FALSE
  /\ attrCache = EmptyCache
  /\ dirCache = EmptyCache
  /\ linkCache = EmptyCache
  /\ fMut = 0
  /\ fInflight = {}
  /\ fCalls = 0
  /\ fLast = NoAnswer
  /\ fIssued = NoRequest

NextFlush ==
  \/ \E length \in 1..MaxWriteLen, position \in 0..MaxPosition :
       WWrite(length, position) /\ UNCHANGED notFlushVars
  \/ \E by \in {"flush", "fsync"} : WFlush(by) /\ UNCHANGED notFlushVars
  \/ \E i \in 1..Len(wFlushes), status \in WriteStatuses :
       WWriteResponse(i, status) /\ UNCHANGED notFlushVars
  \/ WRelease /\ UNCHANGED notFlushVars

SpecFlush == InitFlush /\ [][NextFlush]_vars

\* ---------------------------------------------------------------------------
\* Write coalescing: claims

\* The bytes of a sequence of records or WRITE requests, each with the position
\* it is written at, in order.
RECURSIVE Cells(_)
Cells(reqs) ==
  IF reqs = <<>> THEN <<>>
  ELSE [i \in 1..Len(reqs[1].buffer) |-> <<reqs[1].position + i - 1, reqs[1].buffer[i]>>]
       \o Cells(Tail(reqs))

IsPrefix(a, b) == Len(a) <= Len(b) /\ SubSeq(b, 1, Len(a)) = a

Finished(fl) == fl.pc = "done" /\ fl.failed = "none"

\* C15: the WRITEs of a flush carry the bytes of the records it took, in the
\* order they were buffered and at their positions; no WRITE is longer than
\* the block length, and a WRITE that continues the one before it follows a
\* full block only, so that a contiguous run is sent merged and a contiguous
\* buffer of at most one block is sent as one WRITE.
C15_FlushCoalesces ==
  \A i \in 1..Len(wFlushes) :
    LET fl == wFlushes[i]
    IN /\ IsPrefix(Cells(fl.sent), Cells(fl.taken))
       /\ Finished(fl) => Cells(fl.sent) = Cells(fl.taken)
       /\ \A j \in 1..Len(fl.sent) : Len(fl.sent[j].buffer) <= WriteBlockLength
       /\ \A j \in 1..(Len(fl.sent) - 1) :
            fl.sent[j + 1].position = fl.sent[j].position + Len(fl.sent[j].buffer)
              => Len(fl.sent[j].buffer) = WriteBlockLength

\* A flush of several buffered records has finished with a single WRITE.
C15_Witness ==
  \E i \in 1..Len(wFlushes) :
    /\ Finished(wFlushes[i])
    /\ Len(wFlushes[i].taken) >= 2
    /\ Len(wFlushes[i].sent) = 1

\* The bytes of the write callback k among the requests sent.
SentCount(sent, k) ==
  Cardinality({c \in 1..Len(Cells(sent)) : Cells(sent)[c][2] = k})

\* C16: in a step in which flush, fsync or release completes successfully, every
\* byte of the write callbacks entered before it has been sent in a WRITE and
\* no record is left in the buffer of the descriptor.
C16_FlushFsyncReleaseWriteOut ==
  [][((wReleased' /\ ~wReleased) \/
      (\E i \in 1..Len(wFlushes') :
         /\ wFlushes'[i].by \in {"flush", "fsync"}
         /\ wFlushes'[i].pc = "done"
         /\ wFlushes'[i].res = 0
         /\ (i > Len(wFlushes) \/ wFlushes[i].pc # "done")))
       => /\ wData' = <<>>
          /\ \A k \in 1..Len(wLog) : SentCount(wSent', k) = wLog[k].length]_vars

\* C17: a flush whose WRITE failed with NO_SUCH_FILE (ENOENT) reports 0, and a
\* flush whose WRITE failed with another status reports the errno of that
\* error.
C17_FlushErrors ==
  \A i \in 1..Len(wFlushes) :
    LET fl == wFlushes[i]
    IN (fl.pc = "done" /\ fl.failed # "none") =>
         fl.res = IF fl.failed = "NO_SUCH_FILE" THEN 0 ELSE getErrno(createError(fl.failed))

\* C32: the WRITE requests of one descriptor reach the client in the order of
\* the write callbacks whose bytes they carry, also while a flush is still
\* sending and further writes and flushes arrive.
C32_WritesInKernelOrder ==
  LET cells == Cells(wSent)
  IN \A a, b \in 1..Len(cells) : a < b => cells[a][2] <= cells[b][2]

\* C33: between callbacks the buffer of the descriptor holds at most the limit
\* of records; the write that exceeded it has flushed the whole buffer, its
\* record included, and its kernel callback is answered when that flush has
\* ended and not before.
C33_BufferBounded ==
  /\ Len(wData) <= BufferedRecordLimit
  /\ \A i \in 1..Len(wFlushes) :
       wFlushes[i].by = "write" =>
         /\ Len(wFlushes[i].taken) = BufferedRecordLimit + 1
         /\ wFlushes[i].taken[BufferedRecordLimit + 1].buffer[1] = wFlushes[i].w
         /\ wLog[wFlushes[i].w].cb = "pending" <=> wFlushes[i].pc # "done"
  /\ \A k \in 1..Len(wLog) :
       wLog[k].cb # "length" => \E i \in 1..Len(wFlushes) : wFlushes[i].by = "write" /\ wFlushes[i].w = k

\* A write has exceeded the limit, its flush has sent everything and its
\* callback has been answered with the length.
C33_Witness ==
  \E i \in 1..Len(wFlushes) :
    /\ wFlushes[i].by = "write"
    /\ Finished(wFlushes[i])
    /\ wLog[wFlushes[i].w].cb = "length"
    /\ wData = <<>>

(***************************************************************************)
(* SafeFilesystem (fs-safe.ts): the handle table under a long run of opens *)
(* and closes, each completed before the next is called                    *)
(***************************************************************************)
ExtraOpens == 3       \* opens called beyond MAX_HANDLE_COUNT in one run
MaxCloses == 2        \* close calls in one run
MaxFailedOpens == 1   \* opens the underlying filesystem refuses in one run
EarlyOpens == 2       \* the refused opens are among the first EarlyOpens

\* The handles a run closes: the first ones and the last.
ClosedHandles == {1, 2, MAX_HANDLE_COUNT}

\* open or opendir together with the callback of the underlying open: ENFILE
\* when createHandleInfo returns null; processCallbackHandle deletes the slot
\* when the underlying open failed and stores the descriptor when it succeeded.
AllocOpen(ok) ==
  /\ aOpens < MAX_HANDLE_COUNT + ExtraOpens
  /\ ok \/ (aFails < MaxFailedOpens /\ aOpens < EarlyOpens)
  /\ LET alloc == createHandleInfo(aHandles, aNext)
     IN /\ aNext' = alloc.next
        /\ IF alloc.safe = 0
             THEN /\ aLast' = [alloc |-> 0, res |-> "ENFILE"]
                  /\ UNCHANGED <<aHandles, aFails>>
           ELSE IF ok
             THEN /\ aHandles' = MapPut(aHandles, alloc.safe, alloc.safe)
                  /\ aLast' = [alloc |-> alloc.safe, res |-> "ok"]
                  /\ UNCHANGED aFails
           ELSE /\ aLast' = [alloc |-> alloc.safe, res |-> "err"]
                /\ aFails' = aFails + 1
                /\ UNCHANGED aHandles
  /\ aOpens' = aOpens + 1
  /\ UNCHANGED aCloses

\* close of an open handle: the slot is deleted.
AllocClose(h) ==
  /\ aCloses < MaxCloses
  /\ h \in DOMAIN aHandles
  /\ aHandles' = MapRemove(aHandles, h)
  /\ aCloses' = aCloses + 1
  /\ UNCHANGED <<aNext, aOpens, aFails, aLast>>

InitAlloc ==
  /\ PathIdle
  /\ SafeIdle
  /\ ClientIdle
  /\ FuseIdle
  /\ FlushIdle
  /\ AllocIdle
  /\ SourceIdle
  /\ DirIdle
  /\ LinkIdle
  /\ ReadIdle
  /\ IdsIdle
  /\ SessIdle
  /\ CodecIdle
  /\ RenIdle
  /\ ChanIdle

NextAlloc ==
  \/ \E ok \in BOOLEAN : AllocOpen(ok) /\ UNCHANGED notAllocVars
  \/ \E h \in ClosedHandles : AllocClose(h) /\ UNCHANGED notAllocVars

SpecAlloc == InitAlloc /\ [][NextAlloc]_vars

\* C18: an open called while fewer than MAX_HANDLE_COUNT slots are allocated
\* is given a handle in 1..MAX_HANDLE_COUNT that no open handle holds, and an
\* open fails with ENFILE exactly when all MAX_HANDLE_COUNT slots are
\* allocated.
C18_HandleAllocation ==
  [][(aOpens' # aOpens) =>
       /\ (Cardinality(DOMAIN aHandles) < MAX_HANDLE_COUNT) =>
            /\ aLast'.alloc \in 1..MAX_HANDLE_COUNT
            /\ aLast'.alloc \notin DOMAIN aHandles
       /\ (aLast'.res = "ENFILE") <=> (Cardinality(DOMAIN aHandles) = MAX_HANDLE_COUNT)]_vars

\* The open called with every slot allocated has failed with ENFILE, after a
\* run in which handles were closed and their slots given out again.
C18_Witness ==
  /\ aLast.res = "ENFILE"
  /\ Cardinality(DOMAIN aHandles) = MAX_HANDLE_COUNT
  /\ aCloses > 0


(***************************************************************************)
(* WebSocketChannel over the ws transport (channel.ts, channel-ws.ts).     *)
(*                                                                         *)
(* The channel is either created by the factory for an outgoing connection *)
(* (established = false until the transport's "open" event) or bound to an *)
(* accepted socket (established = true).  The transport emits frames,      *)
(* "close" events with a numeric code, and "error" events.                 *)
(***************************************************************************)
MaxFrames == 2

BAD_DATA == 1007

\* The close codes the transport may report.
CloseCodes == {1000, 1001, 1002, 1006, 1007, 1010, 1011, 1015, 4000}

\* The error codes a transport "error" event may carry.
TransportErrors == {"ECONNREFUSED", "ECONNRESET"}

\* interpretCloseStatus: a number (no error) for a normal close, an error
\* string otherwise.
interpretCloseStatus(code) ==
  CASE code = 1000 -> "number"
    [] code = 1001 -> "X_GOINGAWAY"
    [] code = 1002 -> "EPROTOTYPE"
    [] code = 1006 -> "ECONNABORTED"
    [] code \in {1007, 1008, 1009} -> "EFAILURE"
    [] code \in {1010, 1011} -> "ECONNRESET"
    [] OTHER -> "EFAILURE"

\* _close: "if (!err && !this.established)" the error becomes ECONNREFUSED;
\* err is "null" when no error was given.
RefusedIfNotEstablished(err, established) ==
  IF err = "null" /\ ~established THEN "ECONNREFUSED" ELSE err

\* close(reason): "if (!reason) reason = 1000".
CloseReasonOrNormal(reason) == IF reason = 0 THEN NORMAL ELSE reason

\* _close(kind, err): nothing on a closed channel; otherwise close() with no
\* reason, then the close listener captured before close() is called on the
\* next tick with the error; without a listener the error is thrown.
ChannelUnderClose(cause, err) ==
  IF chClosed
    THEN UNCHANGED <<chClosed, chOnclose, chDoClose, chCause, chTick>>
  ELSE /\ chClosed' = TRUE
       /\ chOnclose' = FALSE
       /\ chDoClose' = CloseReasonOrNormal(0)
       /\ chCause' = cause
       /\ chTick' = IF chOnclose THEN <<RefusedIfNotEstablished(err, chEstablished)>> ELSE <<>>

\* The transport's "open" event of an outgoing connection: _init().
ChanOpen ==
  /\ ~chEstablished
  /\ ~chClosed
  /\ chEstablished' = TRUE
  /\ chOnclose' = FALSE
  /\ UNCHANGED <<chClosed, chOnmessage, chDoClose, chFrames, chCause, chTick, chCloseErr>>
  /\ UNCHANGED notChanVars

\* on("close", listener) and on("message", listener).
ChanOn(event) ==
  /\ event = "close" => ~chOnclose
  /\ event = "message" => ~chOnmessage
  /\ chOnclose' = (chOnclose \/ event = "close")
  /\ chOnmessage' = (chOnmessage \/ event = "message")
  /\ UNCHANGED <<chEstablished, chClosed, chDoClose, chFrames, chCause, chTick, chCloseErr>>
  /\ UNCHANGED notChanVars

\* The transport's "message" event: dropped on a closed channel, a text frame
\* fails validateMessage and goes to _close(1, err), a binary frame goes to
\* the listener.
ChanFrame(isBinary) ==
  /\ chOnmessage
  /\ Len(chFrames) < MaxFrames
  /\ IF chClosed
       THEN /\ chFrames' = Append(chFrames, [binary |-> isBinary, out |-> "dropped"])
            /\ UNCHANGED <<chClosed, chOnclose, chDoClose, chCause, chTick>>
     ELSE IF ~isBinary
       THEN /\ chFrames' = Append(chFrames, [binary |-> isBinary, out |-> "rejected"])
            /\ ChannelUnderClose("frame", "EFAILURE")
     ELSE /\ chFrames' = Append(chFrames, [binary |-> isBinary, out |-> "delivered"])
          /\ UNCHANGED <<chClosed, chOnclose, chDoClose, chCause, chTick>>
  /\ UNCHANGED <<chEstablished, chOnmessage, chCloseErr>>
  /\ UNCHANGED notChanVars

\* The transport's "close" event (_bindCloseListener).
ChanTransportClose(code) ==
  /\ LET mapped == interpretCloseStatus(code)
     IN ChannelUnderClose("transport", IF mapped = "number" THEN "null" ELSE mapped)
  /\ UNCHANGED <<chEstablished, chOnmessage, chFrames, chCloseErr>>
  /\ UNCHANGED notChanVars

\* The transport's "error" event: _close(0, err).
ChanTransportError(code) ==
  /\ ~chClosed
  /\ ChannelUnderClose("error", code)
  /\ UNCHANGED <<chEstablished, chOnmessage, chFrames, chCloseErr>>
  /\ UNCHANGED notChanVars

\* The nextTick callback of _close: onclose(err).
ChanCloseTick ==
  /\ chTick # <<>>
  /\ chCloseErr' = chTick[1]
  /\ chTick' = <<>>
  /\ UNCHANGED <<chEstablished, chClosed, chOnclose, chOnmessage, chDoClose, chFrames, chCause>>
  /\ UNCHANGED notChanVars

\* A channel of an outgoing connection or one bound to an accepted socket.
InitChan ==
  /\ PathIdle
  /\ SafeIdle
  /\ ClientIdle
  /\ FuseIdle
  /\ FlushIdle
  /\ AllocIdle
  /\ SourceIdle
  /\ DirIdle
  /\ LinkIdle
  /\ ReadIdle
  /\ IdsIdle
  /\ SessIdle
  /\ CodecIdle
  /\ RenIdle
  /\ chEstablished \in BOOLEAN
  /\ chClosed = FALSE
  /\ chOnclose = FALSE
  /\ chOnmessage = FALSE
  /\ chDoClose = 0
  /\ chFrames = <<>>
  /\ chCause = "none"
  /\ chTick = <<>>
  /\ chCloseErr = "none"

NextChan ==
  \/ ChanOpen
  \/ \E event \in {"close", "message"} : ChanOn(event)
  \/ \E isBinary \in BOOLEAN : ChanFrame(isBinary)
  \/ \E code \in CloseCodes : ChanTransportClose(code)
  \/ \E code \in TransportErrors : ChanTransportError(code)
  \/ ChanCloseTick

SpecChan == InitChan /\ [][NextChan]_vars

\* C22: a text frame received by an open channel is not delivered to the
\* listener and the transport is closed with close code 1007.
C22_TextFrameCloses1007 ==
  \A i \in 1..Len(chFrames) :
    (~chFrames[i].binary /\ chFrames[i].out # "dropped") =>
      chFrames[i].out = "rejected" /\ chDoClose = BAD_DATA

\* C23: when the transport closes before the channel was established, the
\* close listener receives an error with code ECONNREFUSED, whatever the
\* close code was.
C23_CloseBeforeEstablishedRefused ==
  (chCause = "transport" /\ ~chEstablished /\ chCloseErr # "none") =>
    chCloseErr = "ECONNREFUSED"


(***************************************************************************)
(* SftpClientCore.rename and command (sftp-client.ts), on a client whose   *)
(* handshake has completed.                                                *)
(***************************************************************************)
MaxRenames == 3

\* The flags of a rename: 0, RenameFlags.OVERWRITE, anything else.
RenameFlagKinds == {"0", "OVERWRITE", "other"}

\* The switch of rename: the command it selects and the callbacks it hands to
\* nextTick; the default case breaks out of the switch, it does not return.
RenameCommand(flags) ==
  CASE flags = "OVERWRITE" -> [command |-> "POSIX_RENAME", ticks |-> 0]
    [] flags = "0" -> [command |-> "RENAME", ticks |-> 0]
    [] OTHER -> [command |-> "undefined", ticks |-> 1]

\* command(): a command that is not a packet type is looked up in _features;
\* the result is the packet to send, or "" when there is none.
CommandPacket(command, feature) ==
  CASE command = "RENAME" -> "RENAME"
    [] command = "POSIX_RENAME" /\ feature -> "posix-rename@openssh.com"
    [] OTHER -> ""

\* rename(oldPath, newPath, flags, callback).
Rename(flags) ==
  /\ Len(rCalls) < MaxRenames
  /\ LET k == Len(rCalls) + 1
         sw == RenameCommand(flags)
         packet == CommandPacket(sw.command, rFeature)
         ticks == sw.ticks + (IF packet = "" THEN 1 ELSE 0)
     IN /\ rCalls' = Append(rCalls, [flags |-> flags, sent |-> packet # "", cb |-> 0, out |-> "none"])
        /\ rTicks' = rTicks \o [j \in 1..ticks |-> k]
        /\ rPackets' = IF packet # "" THEN Append(rPackets, k) ELSE rPackets
  /\ UNCHANGED rFeature
  /\ UNCHANGED notRenVars

\* The next nextTick callback: callback(createError(OP_UNSUPPORTED, ...)).
RenameTick ==
  /\ rTicks # <<>>
  /\ LET k == Head(rTicks)
     IN rCalls' = [rCalls EXCEPT ![k].cb = @ + 1, ![k].out = "ENOSYS"]
  /\ rTicks' = Tail(rTicks)
  /\ UNCHANGED <<rFeature, rPackets>>
  /\ UNCHANGED notRenVars

\* The STATUS response to a rename packet: parseStatus calls the callback.
RenameResponse(k, status) ==
  /\ k \in 1..Len(rCalls)
  /\ rCalls[k].sent
  /\ rCalls[k].cb = 0
  /\ rCalls' = [rCalls EXCEPT ![k].cb = 1, ![k].out = status]
  /\ UNCHANGED <<rFeature, rTicks, rPackets>>
  /\ UNCHANGED notRenVars

\* The peer's VERSION did or did not advertise posix-rename@openssh.com.
InitRen ==
  /\ PathIdle
  /\ SafeIdle
  /\ ClientIdle
  /\ FuseIdle
  /\ FlushIdle
  /\ AllocIdle
  /\ SourceIdle
  /\ DirIdle
  /\ LinkIdle
  /\ ReadIdle
  /\ IdsIdle
  /\ SessIdle
  /\ CodecIdle
  /\ ChanIdle
  /\ rFeature \in BOOLEAN
  /\ rCalls = <<>>
  /\ rTicks = <<>>
  /\ rPackets = <<>>

NextRen ==
  \/ \E flags \in RenameFlagKinds : Rename(flags)
  \/ RenameTick
  \/ \E k \in 1..MaxRenames, status \in {"OK", "EFAILURE"} : RenameResponse(k, status)

SpecRen == InitRen /\ [][NextRen]_vars

\* The rename call k is one the client cannot serve.
UnsupportedRename(k) ==
  \/ rCalls[k].flags = "other"
  \/ rCalls[k].flags = "OVERWRITE" /\ ~rFeature

\* The callbacks of call k still waiting in the nextTick queue.
PendingTicks(k) == {j \in 1..Len(rTicks) : rTicks[j] = k}

\* C24: a rename with flags other than 0 and OVERWRITE, or with OVERWRITE when
\* the peer did not advertise posix-rename@openssh.com, sends no packet and
\* its callback is invoked exactly once, with ENOSYS.
C24_UnsupportedRenameOnce ==
  \A k \in 1..Len(rCalls) :
    UnsupportedRename(k) =>
      /\ ~rCalls[k].sent
      /\ \A j \in 1..Len(rPackets) : rPackets[j] # k
      /\ rCalls[k].cb <= 1
      /\ PendingTicks(k) = {} => rCalls[k].cb = 1
      /\ rCalls[k].cb = 1 => rCalls[k].out = "ENOSYS"


(***************************************************************************)
(* SftpPacketWriter and SftpPacketReader (sftp-packet.ts): one value is    *)
(* written at a position and read back at the same position.              *)
(*                                                                         *)
(* A JS number n is the pair <<q, v>> with n = q * 2^32 + v and v a signed *)
(* 32-bit integer; a string is a sequence of code points; data is a        *)
(* sequence of bytes.                                                      *)
(***************************************************************************)
MaxCodecPos == 1
MaxStringLen == 2
MaxDataLen == 2

\* The high half of 2^53 - 1, the largest integer an int64 field carries.
MaxHigh == 2^21 - 1

\* The 32-bit halves the inputs are drawn from: both ends of the range, the
\* byte boundaries, and values with the top bit set.
Int32Samples ==
  {MinInt32, MinInt32 + 1, -16777216, -65536, -256, -1, 0, 1, 127, 128, 255, 256, 65535,
   16777216, MaxInt32 - 1, MaxInt32}

\* The integers 0..2^53-1 with a sampled low half: q * 2^32 + v >= 0 needs
\* q >= 1 when v < 0, and q * 2^32 + v < 2^53 allows q = MaxHigh + 1 only then.
Int64Samples ==
  {<<q, v>> : q \in {0, 1, 2, MaxHigh}, v \in {w \in Int32Samples : w >= 0}}
    \cup {<<q, v>> : q \in {1, 2, MaxHigh, MaxHigh + 1}, v \in {w \in Int32Samples : w < 0}}

\* The code points strings are made of: one ASCII, one two-byte.
CodePoints == {"U+0061", "U+00E9"}

CodecInputs(type) ==
  CASE type = "byte" -> {<<0, b>> : b \in 0..255}
    [] type = "int32" -> {<<0, v>> : v \in Int32Samples}
    [] type = "int64" -> Int64Samples
    [] type = "string" -> SeqsUpTo(CodePoints, MaxStringLen)
    [] type = "data" -> SeqsUpTo({0, 127, 128, 255}, MaxDataLen)

\* TextEncoder.encode: UTF-8.
RECURSIVE stringToUint8Array(_)
stringToUint8Array(value) ==
  IF value = <<>> THEN <<>>
  ELSE (IF Head(value) = "U+0061" THEN <<97>> ELSE <<195, 169>>)
         \o stringToUint8Array(Tail(value))

\* TextDecoder.decode: UTF-8; bytes that are no encoding give U+FFFD.
RECURSIVE uint8ArrayToString(_)
uint8ArrayToString(bytes) ==
  IF bytes = <<>> THEN <<>>
  ELSE IF Head(bytes) = 97 THEN <<"U+0061">> \o uint8ArrayToString(Tail(bytes))
  ELSE IF Len(bytes) >= 2 /\ bytes[1] = 195 /\ bytes[2] = 169
    THEN <<"U+00E9">> \o uint8ArrayToString(Tail(Tail(bytes)))
  ELSE <<"U+FFFD">> \o uint8ArrayToString(Tail(bytes))

\* writeByte: value & 0xFF.
writeByte(value) == <<value[2] % 256>>

\* readByte: buffer[position] & 0xFF.
readByte(bytes) == <<0, bytes[1] % 256>>

\* writeInt64: hi = (value / 2^32) | 0, lo = (value & 0xffffffff) | 0, for a
\* value in 0..2^53-1; then writeInt32(hi), writeInt32(lo).
writeInt64(value) ==
  LET hi == IF value[2] < 0 THEN value[1] - 1 ELSE value[1]
      lo == value[2]
  IN writeInt32(hi) \o writeInt32(lo)

\* readInt64: hi = readInt32(), lo = readUInt32(), hi * 2^32 + lo.  A negative
\* hi (outside what writeInt64 writes for 0..2^53-1) is kept as a third limb.
readInt64(bytes) ==
  LET hi == readInt32(SubSeq(bytes, 1, 4))
      lo == readUInt32(SubSeq(bytes, 5, 8))
  IN IF hi[1] = 0 THEN <<hi[2], lo>> ELSE <<hi[1], hi[2], lo>>

\* writeString: the length of the encoded string, then its bytes.
writeString(value) ==
  LET encoded == stringToUint8Array(value)
  IN writeInt32(Len(encoded)) \o encoded

\* readString: length = readUInt32(), then the decoded bytes.
readString(bytes) ==
  LET length == readUInt32(SubSeq(bytes, 1, 4))
  IN uint8ArrayToString(SubSeq(bytes, 5, 4 + length))

\* writeData: the length, then the bytes.
writeData(data) == writeInt32(Len(data)) \o data

\* readData: length = readUInt32(), then the view of that many bytes.
readData(bytes) ==
  LET length == readUInt32(SubSeq(bytes, 1, 4))
  IN SubSeq(bytes, 5, 4 + length)

\* The writer writes the value at its position.
CodecWrite ==
  /\ kPc = "input"
  /\ kPc' = "written"
  /\ kBuffer' = [i \in 1..kPos |-> 0] \o
       (CASE kType = "byte" -> writeByte(kValue)
          [] kType = "int32" -> writeInt32(kValue[2])
          [] kType = "int64" -> writeInt64(kValue)
          [] kType = "string" -> writeString(kValue)
          [] kType = "data" -> writeData(kValue))
  /\ UNCHANGED <<kType, kValue, kPos, kRead>>
  /\ UNCHANGED notCodecVars

\* The reader reads a value of the same type at the same position.
CodecRead ==
  /\ kPc = "written"
  /\ kPc' = "read"
  /\ LET bytes == SubSeq(kBuffer, kPos + 1, Len(kBuffer))
     IN kRead' = CASE kType = "byte" -> readByte(bytes)
                   [] kType = "int32" -> readInt32(bytes)
                   [] kType = "int64" -> readInt64(bytes)
                   [] kType = "string" -> readString(bytes)
                   [] kType = "data" -> readData(bytes)
  /\ UNCHANGED <<kType, kValue, kPos, kBuffer>>
  /\ UNCHANGED notCodecVars

InitCodec ==
  /\ PathIdle
  /\ SafeIdle
  /\ ClientIdle
  /\ FuseIdle
  /\ FlushIdle
  /\ AllocIdle
  /\ SourceIdle
  /\ DirIdle
  /\ LinkIdle
  /\ ReadIdle
  /\ IdsIdle
  /\ SessIdle
  /\ ChanIdle
  /\ RenIdle
  /\ kType \in {"byte", "int32", "int64", "string", "data"}
  /\ kValue \in CodecInputs(kType)
  /\ kPos \in 0..MaxCodecPos
  /\ kBuffer = <<>>
  /\ kRead = <<>>
  /\ kPc = "input"

NextCodec == CodecWrite \/ CodecRead

SpecCodec == InitCodec /\ [][NextCodec]_vars

\* C25: for byte, int32, int64, string and data, a value written by the writer
\* and read back by the reader at the same position is the value written.
C25_CodecRoundTrip == kPc = "read" => kRead = kValue


(***************************************************************************)
(* SftpFuse write buffers across a disconnect and reconnect (sftp-fuse.ts): *)
(* the write/flush machine above together with handleConnectionClose and   *)
(* its reconnect loop.  The descriptor was opened on session 1.            *)
(***************************************************************************)
\* The session tags that go with a step of the write/flush machine: a write
\* callback entered is tagged with the current client, and so is every WRITE
\* that writeToDisk hands to this.sftp.
SessionTags ==
  /\ sWriteSession' = sWriteSession \o [j \in 1..(Len(wLog') - Len(wLog)) |-> fSftp]
  /\ sSentSession' = sSentSession \o [j \in 1..(Len(wSent') - Len(wSent)) |-> fSftp]

SessWrite(position) ==
  /\ WWrite(1, position)
  /\ SessionTags
  /\ UNCHANGED <<fuseVars, notSessionVars>>

SessFlush ==
  /\ WFlush("flush")
  /\ SessionTags
  /\ UNCHANGED <<fuseVars, notSessionVars>>

SessWriteResponse(i, status) ==
  /\ WWriteResponse(i, status)
  /\ SessionTags
  /\ UNCHANGED <<fuseVars, notSessionVars>>

\* The channel closes: the client fails the WRITE a flush awaits with
\* CONNECTION_LOST (the flush ends in its catch block) and emits "close";
\* handleConnectionClose leaves this.data alone.
SessChannelClosed ==
  /\ FuseChannelClosed
  /\ wFlushes' = [i \in 1..Len(wFlushes) |->
                    IF wFlushes[i].pc = "writing"
                      THEN [wFlushes[i] EXCEPT !.pc = "done",
                                               !.res = FlushCatch(createError("CONNECTION_LOST")),
                                               !.failed = "CONNECTION_LOST"]
                    ELSE wFlushes[i]]
  /\ wLog' = [k \in 1..Len(wLog) |->
                IF \E i \in 1..Len(wFlushes) : wFlushes[i].pc = "writing" /\ wFlushes[i].w = k
                  THEN [wLog[k] EXCEPT !.cb = "error"]
                ELSE wLog[k]]
  /\ UNCHANGED <<wData, wSent, wReleased, sessVars, notSessionVars>>

\* The reconnect loop of handleConnectionClose.
SessReconnectStep ==
  /\ LoopDelayElapsed \/ ConnectSettle(TRUE)
  /\ UNCHANGED <<flushVars, sessVars, notSessionVars>>

InitSess ==
  /\ InitFlush
  /\ sWriteSession = <<>>
  /\ sSentSession = <<>>

NextSess ==
  \/ \E position \in 0..MaxPosition : SessWrite(position)
  \/ SessFlush
  \/ \E i \in 1..Len(wFlushes), status \in {"OK", "FAILURE"} : SessWriteResponse(i, status)
  \/ SessChannelClosed
  \/ SessReconnectStep

SpecSess == InitSess /\ [][NextSess]_vars

\* C31: every WRITE is sent on the session under which the data it carries
\* was buffered (the session the descriptor belongs to): no data buffered
\* before a disconnect goes out on the session made by the reconnect.
C31_WritesStayOnTheirSession ==
  \A j \in 1..Len(wSent) :
    \A b \in 1..Len(wSent[j].buffer) :
      sWriteSession[wSent[j].buffer[b]] = sSentSession[j]

(***************************************************************************)
(* SftpClientCore (sftp-client.ts): the request ID counter over one long   *)
(* session.  The request table is kept as a set of intervals of IDs, so    *)
(* that a session of 2^32 requests has a small state.                      *)
(***************************************************************************)

MaxIdCalls == 3   \* operations called one by one in a run (long runs are one step)

\* The values of _id at which a long run of requests stops.
IdTargets == {MaxInt32, MinInt32, -1, 0, 1, 2}

\* this._requests[id] != null
InFlight(requests, id) == \E r \in requests : r[1] <= id /\ id <= r[2]

\* The IDs getRequest hands out while _id goes from `from` up to, not
\* including, `to`: the counter runs through MaxInt32, MinInt32, ..., -1, 0.
Passed(from, to, id) ==
  IF from <= to THEN from <= id /\ id < to
                ELSE id >= from \/ id < to

\* SftpClientCore._init: getRequest(INIT) sets _id to 1; INIT itself has no ID.
IdInit ==
  /\ iId = <<>>
  /\ iId' = <<1>>
  /\ UNCHANGED <<iRequests, iCalls>>

\* One operation: getRequest gives it _id and advances the counter; execute
\* throws "Duplicate request" when the table still holds that ID, and sends
\* the packet and stores the request otherwise.
IdCall ==
  /\ iId # <<>>
  /\ Len(iCalls) < MaxIdCalls
  /\ LET id == iId[1]
     IN /\ iId' = <<NextId(id)>>
        /\ IF InFlight(iRequests, id)
             THEN /\ iCalls' = Append(iCalls, [id |-> id, out |-> "threw"])
                  /\ UNCHANGED iRequests
             ELSE /\ iCalls' = Append(iCalls, [id |-> id, out |-> "sent"])
                  /\ iRequests' = iRequests \cup {<<id, id>>}

\* _process: the response to the request `id` arrives and the request leaves
\* the table.  readInt32 gives a response whose ID bytes have the high bit set
\* an ID below MinInt32, which is in no table: those requests stay.
IdResponse(id) ==
  /\ <<id, id>> \in iRequests
  /\ readInt32(writeInt32(id)) = <<0, id>>
  /\ iRequests' = iRequests \ {<<id, id>>}
  /\ UNCHANGED <<iId, iCalls>>

\* The requests with an ID below 0 among those that take _id from `from` to
\* `to`, as intervals.
NegativeIds(from, to) ==
  LET upTo == IF to > 0 THEN -1 ELSE to - 1
  IN IF from <= to
       THEN IF from < 0 THEN {<<from, upTo>>} ELSE {}
       ELSE (IF from < 0 THEN {<<from, -1>>} ELSE {})
              \cup (IF to > MinInt32 THEN {<<MinInt32, upTo>>} ELSE {})

\* A long run of operations, each called after the one before it was
\* answered, that takes _id to `target` and meets no ID still in the table.
\* The requests of the run with an ID below 0 are sent and never matched by a
\* response (see IdResponse): they remain in the table.
IdAnsweredRun(target) ==
  /\ iId # <<>>
  /\ target # iId[1]
  /\ ~InFlight(iRequests, iId[1])
  /\ \A r \in iRequests : ~Passed(iId[1], target, r[1]) /\ ~Passed(iId[1], target, r[2])
  /\ iId' = <<target>>
  /\ iRequests' = iRequests \cup NegativeIds(iId[1], target)
  /\ UNCHANGED iCalls

InitIds ==
  /\ PathIdle
  /\ SafeIdle
  /\ ClientIdle
  /\ FuseIdle
  /\ FlushIdle
  /\ AllocIdle
  /\ SourceIdle
  /\ DirIdle
  /\ LinkIdle
  /\ ReadIdle
  /\ ChanIdle
  /\ RenIdle
  /\ CodecIdle
  /\ SessIdle
  /\ iId = <<>>
  /\ iRequests = {}
  /\ iCalls = <<>>

NextIds ==
  \/ IdInit /\ UNCHANGED notIdsVars
  \/ IdCall /\ UNCHANGED notIdsVars
  \/ \E r \in iRequests : IdResponse(r[1]) /\ UNCHANGED notIdsVars
  \/ \E target \in IdTargets : IdAnsweredRun(target) /\ UNCHANGED notIdsVars

SpecIds == InitIds /\ [][NextIds]_vars

\* C34: the first request after INIT has the ID 1; each request gets the
\* counter's value and leaves the counter one higher modulo 2^32; a request is
\* never given an ID that is still in the table (such IDs are skipped), so
\* every request is sent under an ID of its own.
C34_IdsCountedAndSkipped ==
  /\ [][iId = <<>> => iId' = <<1>>]_vars
  /\ [][Len(iCalls') > Len(iCalls) =>
         LET call == iCalls'[Len(iCalls')]
         IN /\ iId'[1] = (IF call.id = MaxInt32 THEN MinInt32 ELSE call.id + 1)
            /\ ~InFlight(iRequests, call.id)
            /\ call.out = "sent"]_vars

(***************************************************************************)
(* SftpClientCore.read and parseData (sftp-client.ts): one read() and the  *)
(* responses to its READ requests.                                         *)
(***************************************************************************)

MaxReadLen == 2        \* the longest read requested and the longest DATA answered
MaxReadPosition == 2   \* the highest position read from

\* `retries > 4` in parseData fails the read.
RETRY_LIMIT == 4

\* SftpClientCore.read: one READ with the caller's position and length; the
\* parser installed has retries 0.
ReadCall(length, position) ==
  /\ pOut = "none"
  /\ pArgs' = <<[position |-> position, length |-> length]>>
  /\ pReads' = <<[position |-> position, length |-> length]>>
  /\ pRetries' = 0
  /\ pLength' = length
  /\ pOut' = "pending"
  /\ UNCHANGED pEmpty

\* parseData on a STATUS response: EOF is a read of zero bytes, any other
\* error goes to the callback.
ReadStatus(code) ==
  /\ pOut = "pending"
  /\ pOut' = IF code = "EOF" THEN "eof" ELSE "error"
  /\ UNCHANGED <<pArgs, pReads, pRetries, pLength, pEmpty>>

\* parseData on a DATA response of n bytes.  `length = data.length` comes
\* before the test for an empty response, so the READ that is issued again
\* and the parser installed for it carry the length 0.
ReadData(n) ==
  /\ pOut = "pending"
  /\ pEmpty' = IF n = 0 THEN pEmpty + 1 ELSE pEmpty
  /\ IF n > pLength
       THEN /\ pOut' = "threw"
            /\ UNCHANGED <<pReads, pRetries, pLength>>
     ELSE IF n = 0
       THEN IF pRetries > RETRY_LIMIT
              THEN /\ pOut' = "EIO"
                   /\ UNCHANGED <<pReads, pRetries, pLength>>
              ELSE /\ pReads' = Append(pReads, [position |-> pArgs[1].position, length |-> n])
                   /\ pRetries' = pRetries + 1
                   /\ pLength' = n
                   /\ UNCHANGED pOut
     ELSE /\ pOut' = "data"
          /\ pLength' = n
          /\ UNCHANGED <<pReads, pRetries>>
  /\ UNCHANGED pArgs

InitRead ==
  /\ PathIdle
  /\ SafeIdle
  /\ ClientIdle
  /\ FuseIdle
  /\ FlushIdle
  /\ AllocIdle
  /\ SourceIdle
  /\ DirIdle
  /\ LinkIdle
  /\ ChanIdle
  /\ RenIdle
  /\ CodecIdle
  /\ SessIdle
  /\ IdsIdle
  /\ pArgs = <<>>
  /\ pReads = <<>>
  /\ pRetries = 0
  /\ pLength = 0
  /\ pEmpty = 0
  /\ pOut = "none"

NextRead ==
  \/ \E length \in 1..MaxReadLen, position \in 0..MaxReadPosition :
       ReadCall(length, position) /\ UNCHANGED notReadVars
  \/ \E code \in {"EOF", "FAILURE"} : ReadStatus(code) /\ UNCHANGED notReadVars
  \/ \E n \in 0..MaxReadLen : ReadData(n) /\ UNCHANGED notReadVars

SpecRead == InitRead /\ [][NextRead]_vars

\* C35: every READ issued again after an empty DATA response repeats the
\* position and the length of the first one; there are at most 4 of them, and
\* the 5th empty DATA response in a row ends the read with EIO.
C35_EmptyDataRetried ==
  /\ \A j \in 1..Len(pReads) : pReads[j] = pArgs[1]
  /\ Len(pReads) <= 1 + RETRY_LIMIT
  /\ pEmpty >= RETRY_LIMIT + 1 => pOut = "EIO"

(***************************************************************************)
(* SftpFuse.readlink (sftp-fuse.ts): what the kernel is answered, and      *)
(* whether a READLINK request has succeeded.                               *)
(***************************************************************************)

\* readlink is entered for the file: not ready, answered from the cache with
\* cb(0, target), or sent as a READLINK request.
LinkReadlink ==
  /\ KernelCall("readlink", FALSE)
  /\ lAnswer' = IF isNotReady THEN "ENOTCONN"
                ELSE IF linkCache[File] # <<>> THEN "0"
                ELSE lAnswer
  /\ UNCHANGED <<lSucceeded, notFuseLinkVars>>

\* The response to a READLINK request: the callback of readlink stores the
\* target and hands err to fuseError(cb).
LinkResponse(r, ok) ==
  /\ r.op = "readlink"
  /\ FuseResponse(r, ok, FALSE)
  /\ lSucceeded' = (lSucceeded \/ ok)
  /\ lAnswer' = IF ok THEN "0" ELSE "errno"
  /\ UNCHANGED notFuseLinkVars

\* The channel closes: the requests in flight fail with CONNECTION_LOST.
LinkChannelClosed ==
  /\ FuseChannelClosed
  /\ lAnswer' = IF \E r \in fInflight : r.op = "readlink" THEN "errno" ELSE lAnswer
  /\ UNCHANGED <<lSucceeded, notFuseLinkVars>>

InitLink ==
  /\ InitFuse
  /\ lSucceeded = FALSE
  /\ lAnswer = "none"

NextLink ==
  \/ FuseConnect /\ UNCHANGED <<linkVars, notFuseLinkVars>>
  \/ ConnectSettle(TRUE) /\ UNCHANGED <<linkVars, notFuseLinkVars>>
  \/ LoopDelayElapsed /\ UNCHANGED <<linkVars, notFuseLinkVars>>
  \/ LinkReadlink
  \/ \E r \in fInflight, ok \in BOOLEAN : LinkResponse(r, ok)
  \/ LinkChannelClosed
  \/ CacheExpire("link", File) /\ UNCHANGED <<linkVars, notFuseLinkVars>>

SpecLink == InitLink /\ [][NextLink]_vars

\* C36: readlink answers the kernel with errno 0 only if a READLINK request
\* for the path has succeeded; a failed request is not answered from the cache
\* as a success later.
C36_FailedReadlinkNotCached == lAnswer = "0" => lSucceeded

(***************************************************************************)
(* SftpFuse.readdir (sftp-fuse.ts) when the listing is not cached: OPENDIR,*)
(* READDIR until the end, CLOSE in the finally block, then the callback.   *)
(***************************************************************************)

MaxReaddirs == 2    \* readdir calls in one run
MaxDirItems == 2    \* items collected by one readdir

\* The statuses an OPENDIR or READDIR request is answered with.
DirStatuses == {"OK", "NO_SUCH_FILE", "PERMISSION_DENIED", "FAILURE"}

\* toHandle(undefined) throws Error("Missing handle"): no code, no errno and
\* no description.
MissingHandle == [code |-> "none", errno |-> 0]

\* getErrno for any error object: one without code and errno is ENOSYS.
getErrnoOrENOSYS(err) ==
  IF err.code = "none" THEN FuseErrno("ENOSYS") ELSE getErrno(err)

\* The finally block of readdir: this.sftp.close(handle, ...).  With no handle
\* close throws synchronously, and the exception thrown inside finally
\* replaces the one that was on its way to the catch block.
ReaddirFinally(hasHandle, pending) ==
  IF hasHandle THEN [closes |-> 1, thrown |-> pending]
  ELSE [closes |-> 0, thrown |-> <<MissingHandle>>]

\* readdir is entered for a directory that is in no cache: OPENDIR is sent.
ReaddirCall ==
  /\ dPc = "idle"
  /\ Len(dLog) < MaxReaddirs
  /\ dPc' = "opendir"
  /\ dItems' = 0
  /\ UNCHANGED dLog

\* The end of readdir: the finally block, then cb(0, filenames) or the catch
\* block with fuseError(cb)(err).
ReaddirEnd(opendir, readdir, hasHandle, pending) ==
  LET fin == ReaddirFinally(hasHandle, pending)
  IN /\ dLog' = Append(dLog, [opendir |-> opendir, readdir |-> readdir, items |-> dItems,
                                closes |-> fin.closes,
                                answer |-> IF fin.thrown = <<>> THEN 0
                                           ELSE getErrnoOrENOSYS(fin.thrown[1])])
     /\ dPc' = "idle"
     /\ dItems' = 0
   
\* The response to OPENDIR: a handle, or an error that the await throws.
OpendirResponse(status) ==
  /\ dPc = "opendir"
  /\ IF status = "OK"
       THEN /\ dPc' = "readdir"
            /\ UNCHANGED <<dItems, dLog>>
     ELSE ReaddirEnd(status, "none", FALSE, <<createError(status)>>)

\* The response to READDIR: n items (the loop goes on), the end of the
\* listing (n = 0), or an error that the await throws.
ReaddirResponse(status, n) ==
  /\ dPc = "readdir"
  /\ IF status = "OK" /\ n > 0
       THEN /\ dItems + n <= MaxDirItems
            /\ dItems' = dItems + n
            /\ UNCHANGED <<dPc, dLog>>
     ELSE IF status = "OK"
       THEN ReaddirEnd("OK", "end", TRUE, <<>>)
     ELSE ReaddirEnd("OK", status, TRUE, <<createError(status)>>)

InitDir ==
  /\ PathIdle
  /\ SafeIdle
  /\ ClientIdle
  /\ FuseIdle
  /\ FlushIdle
  /\ AllocIdle
  /\ SourceIdle
  /\ ChanIdle
  /\ RenIdle
  /\ CodecIdle
  /\ SessIdle
  /\ IdsIdle
  /\ ReadIdle
  /\ LinkIdle
  /\ dPc = "idle"
  /\ dItems = 0
  /\ dLog = <<>>

NextDir ==
  \/ ReaddirCall /\ UNCHANGED notDirVars
  \/ \E status \in DirStatuses : OpendirResponse(status) /\ UNCHANGED notDirVars
  \/ \E status \in DirStatuses, n \in 0..MaxDirItems :
       ReaddirResponse(status, n) /\ UNCHANGED notDirVars

SpecDir == InitDir /\ [][NextDir]_vars

\* C37: a readdir whose OPENDIR request failed answers the kernel with the
\* errno of that OPENDIR error.
C37_OpendirErrnoReported ==
  \A k \in 1..Len(dLog) :
    dLog[k].opendir # "OK" => dLog[k].answer = getErrno(createError(dLog[k].opendir))

(***************************************************************************)
(* FileDataSource (sftp-client.ts): up to 4 READ requests in flight, the   *)
(* queue of chunks ordered by position, and read() called by the consumer. *)
(* Lengths are in units of half a chunk.                                   *)
(***************************************************************************)

MaxFileLength == 5      \* the longest file
MaxInitialPosition == 1 \* the highest position a data source starts at
ChunkSize == 2          \* chunkSize (0x8000 bytes) in units
ReadAhead == 8          \* 0x20000 bytes, four chunks, in units

\* while (this.requests < 4)
MAX_SOURCE_REQUESTS == 4

\* The data source as a record, with the requests in flight.
SourceState == [src |-> qSource, requests |-> qRequests]

SourceCommit(s) ==
  /\ qSource' = s.src
  /\ qRequests' = s.requests

\* The loop of _flush that reads ahead: _next for chunk after chunk while
\* fewer than 4 requests are in flight and the window is not exceeded.
RECURSIVE ReadMore(_)
ReadMore(s) ==
  IF /\ Cardinality(s.requests) < MAX_SOURCE_REQUESTS
     /\ ~s.src.closed
     /\ s.src.nextChunkPosition - s.src.expectedPosition <= ReadAhead
    THEN ReadMore([s EXCEPT
           !.requests = @ \cup {[position |-> s.src.nextChunkPosition, bytesToRead |-> ChunkSize]},
           !.src.nextChunkPosition = @ + ChunkSize])
  ELSE s

\* FileDataSource._flush
SourceFlush(s) ==
  IF s.src.closed \/ s.src.eof
    THEN IF s.requests # {} THEN s
         ELSE IF s.src.handle THEN [s EXCEPT !.src.handle = FALSE, !.src.closing = TRUE]
         ELSE IF s.src.readable THEN s
         ELSE [s EXCEPT !.src.ended = TRUE]
  ELSE IF ~s.src.started THEN [s EXCEPT !.src.started = TRUE, !.src.opening = TRUE]
  ELSE IF ~s.src.handle THEN s
  ELSE ReadMore(s)

\* FileDataSource._error
SourceError(s) ==
  SourceFlush([s EXCEPT !.src.closed = TRUE, !.src.failed = TRUE, !.src.queue = <<>>])

\* The index at which the callback of _next inserts a chunk: behind the last
\* chunk of the queue that lies before it.
InsertIndex(queue, position) ==
  LET before == {i \in 1..Len(queue) : position > queue[i].position}
  IN IF before = {} THEN 0 ELSE CHOOSE i \in before : \A j \in before : j <= i

\* The test of read(): the head of the queue is the chunk expected next.
HeadIsAnyChunk(queue, expectedPosition) == queue # <<>>
HeadIsExpected(queue, expectedPosition) ==
  queue # <<>> /\ queue[1].position = expectedPosition

\* The constructor, with the stats of the file given.
NewSource(position) ==
  [handle |-> FALSE, nextChunkPosition |-> position, expectedPosition |-> position,
   queue |-> <<>>, started |-> FALSE, eof |-> FALSE, closed |-> FALSE, ended |-> FALSE,
   readable |-> FALSE, failed |-> FALSE, opening |-> FALSE, closing |-> FALSE]

\* on() / once(): the consumer attaches a listener; _flush opens the file.
SourceOn ==
  /\ ~qSource.started
  /\ SourceCommit(SourceFlush(SourceState))
  /\ UNCHANGED <<qLength, qInitial, qOut>>

\* The callback of fs.open in _open.
SourceOpened(ok) ==
  /\ qSource.opening
  /\ LET s == [SourceState EXCEPT !.src.opening = FALSE]
     IN SourceCommit(IF ok THEN SourceFlush([s EXCEPT !.src.handle = TRUE])
                     ELSE SourceError(s))
  /\ UNCHANGED <<qLength, qInitial, qOut>>

\* The callback of fs.read in _next for the request r: an error, or bytesRead
\* bytes of the file from r.position (0 at and behind the end of the file;
\* fewer than asked for is a short read).
SourceReadDone(r, ok, bytesRead) ==
  /\ r \in qRequests
  /\ ok => bytesRead = 0 \/ r.position + bytesRead <= qLength
  /\ ok /\ bytesRead = 0 => r.position >= qLength
  /\ LET s == [SourceState EXCEPT !.requests = @ \ {r}]
         index == InsertIndex(s.src.queue, r.position)
         chunk == [position |-> r.position, length |-> bytesRead]
         queued == [s EXCEPT
                      !.src.queue = SubSeq(@, 1, index) \o <<chunk>> \o SubSeq(@, index + 1, Len(@)),
                      !.requests = IF bytesRead < r.bytesToRead
                                     THEN @ \cup {[position |-> r.position + bytesRead,
                                                   bytesToRead |-> r.bytesToRead - bytesRead]}
                                   ELSE @]
         flushed == SourceFlush(queued)
     IN SourceCommit(
          IF ~ok THEN SourceError(s)
          ELSE IF s.src.closed THEN SourceFlush(s)
          ELSE IF bytesRead = 0 THEN SourceFlush([s EXCEPT !.src.eof = TRUE])
          ELSE IF ~flushed.src.readable /\ index = 0
                  /\ chunk.position = flushed.src.expectedPosition
            THEN [flushed EXCEPT !.src.readable = TRUE]
          ELSE flushed)
  /\ UNCHANGED <<qLength, qInitial, qOut>>

\* FileDataSource.read, called by the consumer.
SourceRead ==
  /\ qSource.started
  /\ LET s == SourceState
         queue == s.src.queue
     IN IF HeadIsExpected(queue, s.src.expectedPosition)
          THEN LET chunk == Head(queue)
                   expected == s.src.expectedPosition + chunk.length
                   rest == Tail(queue)
               IN /\ qOut' = Append(qOut, chunk)
                  /\ SourceCommit(SourceFlush([s EXCEPT
                        !.src.expectedPosition = expected,
                        !.src.queue = rest,
                        !.src.readable = IF rest = <<>> \/ rest[1].position # expected
                                           THEN FALSE ELSE @]))
        ELSE /\ SourceCommit(SourceFlush(s))
             /\ UNCHANGED qOut
  /\ UNCHANGED <<qLength, qInitial>>

\* The callback of fs.close in _close.
SourceClosed(ok) ==
  /\ qSource.closing
  /\ LET s == [SourceState EXCEPT !.src.closing = FALSE]
     IN SourceCommit(IF ok THEN SourceFlush(s) ELSE SourceError(s))
  /\ UNCHANGED <<qLength, qInitial, qOut>>

\* FileDataSource.close, called by the consumer.
SourceClose ==
  /\ qSource.started
  /\ ~qSource.closed
  /\ SourceCommit(SourceFlush([SourceState EXCEPT
        !.src.closed = TRUE, !.src.queue = <<>>, !.src.readable = FALSE]))
  /\ UNCHANGED <<qLength, qInitial, qOut>>

InitSource ==
  /\ PathIdle
  /\ SafeIdle
  /\ ClientIdle
  /\ FuseIdle
  /\ FlushIdle
  /\ AllocIdle
  /\ ChanIdle
  /\ RenIdle
  /\ CodecIdle
  /\ SessIdle
  /\ IdsIdle
  /\ ReadIdle
  /\ LinkIdle
  /\ DirIdle
  /\ qLength \in 0..MaxFileLength
  /\ qInitial \in 0..MaxInitialPosition
  /\ qSource = NewSource(qInitial)
  /\ qRequests = {}
  /\ qOut = <<>>

NextSource ==
  \/ SourceOn /\ UNCHANGED notSourceVars
  \/ \E ok \in BOOLEAN : SourceOpened(ok) /\ UNCHANGED notSourceVars
  \/ \E r \in qRequests, ok \in BOOLEAN, bytesRead \in 0..ChunkSize :
       /\ bytesRead <= r.bytesToRead
       /\ SourceReadDone(r, ok, bytesRead)
       /\ UNCHANGED notSourceVars
  \/ SourceRead /\ UNCHANGED notSourceVars
  \/ \E ok \in BOOLEAN : SourceClosed(ok) /\ UNCHANGED notSourceVars
  \/ SourceClose /\ UNCHANGED notSourceVars

SpecSource == InitSource /\ [][NextSource]_vars

\* C40: the chunks read() has returned start at the initial position and each
\* starts where the one before it ended, with at least one byte each: no gap,
\* no overlap, increasing positions, in whatever order the READ requests
\* completed and however short the reads were.
C40_ChunksInPositionOrder ==
  \A j \in 1..Len(qOut) :
    /\ qOut[j].length > 0
    /\ qOut[j].position = IF j = 1 THEN qInitial
                          ELSE qOut[j - 1].position + qOut[j - 1].length

\* Two chunks were returned, one of them from a short read, while a chunk
\* of a later request waits in the queue for the one before it.
C40_Witness ==
  /\ Len(qOut) >= 2
  /\ \E j \in 1..Len(qOut) : qOut[j].length < ChunkSize
  /\ qSource.queue # <<>>
  /\ qSource.queue[1].position > qSource.expectedPosition

====
